---- MODULE Spec2Model ----
(***************************************************************************)
(* Behavior tree manager of the AI companion                               *)
(* (src/ai-companion/src/behavior-tree/behavior_tree.py).                  *)
(*                                                                         *)
(* The Python object graph is modelled as a heap: BehaviorState objects    *)
(* live in cells of `heap`, the `children` list objects of the             *)
(* definitions live in cells of `lists`.  Object identity matters in the   *)
(* source: self.root_state keeps the object built by __init__ while        *)
(* restore_backup re-creates every registry entry, and to_dict/from_dict   *)
(* hand the very same `children` list object from a definition to a        *)
(* backup and on to the restored definition.  A cell is only a name: after   *)
(* every call the cells still referred to are numbered in the order in     *)
(* which they are found from self.root_state and the registry, and the     *)
(* others are free again (garbage collection).                             *)
(***************************************************************************)
EXTENDS Integers, Sequences, FiniteSets, TLC

VARIABLES
    heap,               \* cell -> BehaviorState object (or FreeObj)
    lists,              \* cell -> a definition's `children` list object
    states,             \* BehaviorTreeManager.states: id -> heap cell
    root_state,         \* BehaviorTreeManager.root_state: heap cell
    last_modification,  \* BehaviorTreeManager.last_modification
    now,                \* the wall clock, datetime.now()
    file,               \* contents of behavior_states.json
    backup,             \* a snapshot returned by create_backup, held by the caller
    last,               \* the call made by the last step and what it returned
    calls,              \* the number of calls made so far
    accepted_at,        \* when modify_state last got past its two checks
    running,            \* the frames of an execute_tree coroutine that is suspended
    working_memory,     \* MemoryManager.working_memory: id -> Memory
    db,                 \* the rows of table `memories` of memories.db, in rowid order
    issued,             \* the types of the memories that were given the ids 1, 2, ...
    tasks,              \* consolidation tasks created and not yet run
    reading             \* the Memory a retrieve_memory in another thread has read
                        \* and not yet written back (<<>> if there is none)

(* the variables of the behavior tree manager and of its callers *)
tvars == <<heap, lists, states, root_state, last_modification, file, backup,
           accepted_at, running>>

(* the variables of the memory manager *)
mvars == <<working_memory, db, issued, tasks, reading>>

vars == <<heap, lists, states, root_state, last_modification, now, file, backup, last,
          calls, accepted_at, running, working_memory, db, issued, tasks, reading>>

----------------------------------------------------------------------------
(* Bounds of the model *)

MaxObjs == 6
MaxLists == 7
MaxCalls == 4
MaxChecks == 2

Objs == 1..MaxObjs
Lists == 1..MaxLists

(* Clock ticks per modification cooldown (timedelta(seconds=60)) *)
Cooldown == 1

(* datetime.min: further back than any cooldown *)
DatetimeMin == 0 - Cooldown

DefaultTimeout == 300
RootPriority == 10
DefaultPriority == 5

Ids == {"root", "a", "b"}

----------------------------------------------------------------------------
(* StateType and its serialized values *)

StateType == {"ACTION", "CONDITION", "COMPOSITE", "ROOT"}

TypeValue(t) ==
    CASE t = "ACTION" -> "action"
      [] t = "CONDITION" -> "condition"
      [] t = "COMPOSITE" -> "composite"
      [] t = "ROOT" -> "root"

TypeOfValue(v) == CHOOSE t \in StateType : TypeValue(t) = v

Range(s) == {s[i] : i \in DOMAIN s}

Min(S) == CHOOSE x \in S : \A y \in S : x <= y

(* The cells of S in increasing order *)
RECURSIVE SortedSeq(_)
SortedSeq(S) == IF S = {} THEN <<>> ELSE <<Min(S)>> \o SortedSeq(S \ {Min(S)})

IdRank(i) == CASE i = "root" -> 0 [] i = "a" -> 1 [] i = "b" -> 2 [] OTHER -> 3

RECURSIVE IdSeq(_)
IdSeq(S) ==
    IF S = {} THEN <<>>
    ELSE LET m == CHOOSE x \in S : \A y \in S : IdRank(x) <= IdRank(y)
         IN <<m>> \o IdSeq(S \ {m})

----------------------------------------------------------------------------
(* StateDefinition; `children` holds the cell of the list object *)

StateDefinition(id, name, type, priority, conditions, actions, children, timeout, stamp) ==
    [id |-> id, name |-> name, type |-> type, priority |-> priority,
     conditions |-> conditions, actions |-> actions, children |-> children,
     timeout_seconds |-> timeout, modified_at |-> stamp]

NoDef == StateDefinition("", "", "ROOT", 0, <<>>, <<>>, 0, 0, 0)

FreeObj == [cls |-> "free", def |-> NoDef, kids |-> <<>>, status |-> "idle"]

(* BehaviorState.__init__ *)
BehaviorState(cls, def) == [cls |-> cls, def |-> def, kids |-> <<>>, status |-> "idle"]

(* RootState.__init__: a fresh definition, whatever definition was asked for *)
RootState(cell, t) ==
    BehaviorState("RootState",
        StateDefinition("root", "Root State", "ROOT", RootPriority, <<>>, <<>>, cell,
                        DefaultTimeout, t))

(* StateFactory.create_state *)
create_state(def, rootcell, t) ==
    CASE def.type = "ACTION" -> BehaviorState("ActionState", def)
      [] def.type = "CONDITION" -> BehaviorState("ConditionState", def)
      [] def.type = "COMPOSITE" -> BehaviorState("CompositeState", def)
      [] def.type = "ROOT" -> RootState(rootcell, t)

(* StateDefinition.to_dict: the enum becomes its value, the lists are handed
   over as they are (the same list objects) *)
to_dict(def) == [def EXCEPT !.type = TypeValue(def.type)]

(* StateDefinition.from_dict *)
from_dict(data) == [data EXCEPT !.type = TypeOfValue(data.type)]

----------------------------------------------------------------------------
(* Reachability in the heap and garbage collection *)

RECURSIVE Closure(_, _)
Closure(h, S) ==
    LET T == S \cup UNION {Range(h[o].kids) : o \in S}
    IN IF T = S THEN S ELSE Closure(h, T)

NoBackup == <<>>

LiveObjs(h, reg, rs) == Closure(h, {reg[i] : i \in DOMAIN reg} \cup {rs})

LiveLists(h, live, bk) ==
    {h[o].def.children : o \in live} \cup {bk[i].children : i \in DOMAIN bk}

(* seq followed by the elements of xs it does not hold yet *)
RECURSIVE AppendNew(_, _)
AppendNew(seq, xs) ==
    IF xs = <<>> THEN seq
    ELSE AppendNew(IF Head(xs) \in Range(seq) THEN seq ELSE Append(seq, Head(xs)),
                   Tail(xs))

(* no execute_tree coroutine is suspended *)
Idle == <<>>

(* the cells that the frames of the suspended coroutines refer to: for every
   CompositeState.execute its object and its sorted_children, and the
   ActionState whose action is awaited *)
RECURSIVE FrameCells(_)
FrameCells(stack) ==
    IF stack = <<>> THEN <<>>
    ELSE <<Head(stack).obj>> \o Head(stack).sorted \o FrameCells(Tail(stack))

RECURSIVE HeldCells(_)
HeldCells(run) ==
    IF run = Idle THEN <<>>
    ELSE FrameCells(Head(run).stack) \o <<Head(run).obj>> \o HeldCells(Tail(run))

RECURSIVE Discover(_, _, _)
Discover(h, seq, k) ==
    IF k > Len(seq) THEN seq ELSE Discover(h, AppendNew(seq, h[seq[k]].kids), k + 1)

(* The heap with its live cells renumbered in discovery order *)
Collect(h, L, reg, rs, bk, run) ==
    LET regids == IdSeq(DOMAIN reg)
        bkids == IdSeq(DOMAIN bk)
        oseq == Discover(h, AppendNew(AppendNew(<<rs>>,
                                          [k \in DOMAIN regids |-> reg[regids[k]]]),
                                      HeldCells(run)), 1)
        lseq == AppendNew(AppendNew(<<>>, [k \in DOMAIN oseq |-> h[oseq[k]].def.children]),
                          [k \in DOMAIN bkids |-> bk[bkids[k]].children])
        onew(o) == CHOOSE k \in DOMAIN oseq : oseq[k] = o
        lnew(c) == CHOOSE k \in DOMAIN lseq : lseq[k] = c
        move(obj) == [obj EXCEPT !.def.children = lnew(@),
                                 !.kids = [k \in DOMAIN @ |-> onew(@[k])]]
        frame(fr) == [fr EXCEPT !.obj = onew(@),
                                !.sorted = [k \in DOMAIN @ |-> onew(@[k])]]
        coroutine(co) == [co EXCEPT !.obj = onew(@),
                                    !.stack = [k \in DOMAIN @ |-> frame(@[k])]]
    IN [heap |-> [o \in Objs |-> IF o <= Len(oseq) THEN move(h[oseq[o]]) ELSE FreeObj],
        lists |-> [c \in Lists |-> IF c <= Len(lseq) THEN L[lseq[c]] ELSE <<>>],
        states |-> [i \in DOMAIN reg |-> onew(reg[i])],
        root_state |-> onew(rs),
        backup |-> [i \in DOMAIN bk |-> [bk[i] EXCEPT !.children = lnew(@)]],
        running |-> [k \in DOMAIN run |-> coroutine(run[k])]]

(* the objects that the manager or a suspended coroutine can still reach *)
Reachable == LiveObjs(heap, states, root_state) \cup Closure(heap, Range(HeldCells(running)))

FreeObjs == Objs \ Reachable
FreeLists == Lists \ LiveLists(heap, Reachable, backup)

(* the child-id list of the object in cell o *)
ChildIds(h, L, o) == L[h[o].def.children]

----------------------------------------------------------------------------
(* BehaviorTreeManager.validate_tree: depth-first search from "root"; `visited`
   is shared by the whole search, `path` is copied for every child *)

RECURSIVE check_cycles(_, _, _, _, _, _)
RECURSIVE check_children(_, _, _, _, _, _, _)

check_cycles(reg, h, L, state_id, path, visited) ==
    IF state_id \in path THEN [ok |-> FALSE, visited |-> visited]
    ELSE IF state_id \in visited THEN [ok |-> TRUE, visited |-> visited]
    ELSE IF state_id \notin DOMAIN reg
         THEN [ok |-> FALSE, visited |-> visited \cup {state_id}]
         ELSE check_children(reg, h, L, ChildIds(h, L, reg[state_id]), 1,
                             path \cup {state_id}, visited \cup {state_id})

check_children(reg, h, L, ids, k, path, visited) ==
    IF k > Len(ids) THEN [ok |-> TRUE, visited |-> visited]
    ELSE LET r == check_cycles(reg, h, L, ids[k], path, visited)
         IN IF ~r.ok THEN r
            ELSE check_children(reg, h, L, ids, k + 1, path, r.visited)

validate_tree_always(reg, h, L) == TRUE

validate_tree(reg, h, L) == check_cycles(reg, h, L, "root", {}, {}).ok

----------------------------------------------------------------------------
(* Snapshots *)

(* BehaviorTreeManager.create_backup: the dictionaries keep the definitions'
   own `children` list objects *)
create_backup(reg, h) == [i \in DOMAIN reg |-> to_dict(h[reg[i]].def)]

(* json.dump of one dictionary: the list is written out by value *)
json_dump(d, L) == [d EXCEPT !.children = L[d.children]]

(* BehaviorTreeManager.save_states *)
save_states(reg, h, L) == [i \in DOMAIN reg |-> json_dump(to_dict(h[reg[i]].def), L)]

NoFile == <<>>

(* a rebuild that relinks every object, the executed root included *)
rebuild_tree_structure_of_all(reg, h, L) ==
    LET ids(o) == SelectSeq(ChildIds(h, L, o), LAMBDA c : c \in DOMAIN reg)
    IN [o \in Objs |->
          IF h[o].cls # "free"
          THEN [h[o] EXCEPT !.kids = [k \in DOMAIN ids(o) |-> reg[ids(o)[k]]]]
          ELSE h[o]]

(* BehaviorTreeManager._rebuild_tree_structure *)
rebuild_tree_structure(reg, h, L) ==
    LET regobjs == {reg[i] : i \in DOMAIN reg}
        ids(o) == SelectSeq(ChildIds(h, L, o), LAMBDA c : c \in DOMAIN reg)
    IN [o \in Objs |->
          IF o \in regobjs
          THEN [h[o] EXCEPT !.kids = [k \in DOMAIN ids(o) |-> reg[ids(o)[k]]]]
          ELSE h[o]]

PosIn(seq, x) == CHOOSE k \in DOMAIN seq : seq[k] = x

(* Cells that restore_backup may use for the objects it creates: the registry
   is cleared first, so only what self.root_state still reaches is kept *)
RestoreFreeObjs(h, rs) == Objs \ Closure(h, {rs})

RestoreFreeLists(h, rs, bk, held) ==
    Lists \ ({h[o].def.children : o \in Closure(h, {rs})}
             \cup {bk[i].children : i \in DOMAIN bk}
             \cup {held[i].children : i \in DOMAIN held})

RootIds(bk) == {i \in DOMAIN bk : bk[i].type = TypeValue("ROOT")}

RestoreFits(bk, h, rs, held) ==
    /\ Cardinality(DOMAIN bk) <= Cardinality(RestoreFreeObjs(h, rs))
    /\ Cardinality(RootIds(bk)) <= Cardinality(RestoreFreeLists(h, rs, bk, held))

(* BehaviorTreeManager.restore_backup *)
restore_backup(bk, h, L, rs, held, t) ==
    LET order == IdSeq(DOMAIN bk)
        cells == SortedSeq(RestoreFreeObjs(h, rs))
        rorder == IdSeq(RootIds(bk))
        rcells == SortedSeq(RestoreFreeLists(h, rs, bk, held))
        cellOf(i) == cells[PosIn(order, i)]
        reg == [i \in DOMAIN bk |-> cellOf(i)]
        rootcell(i) == IF i \in RootIds(bk) THEN rcells[PosIn(rorder, i)] ELSE 0
        newcells == {cellOf(i) : i \in DOMAIN bk}
        idAt(o) == CHOOSE i \in DOMAIN bk : cellOf(i) = o
        h0 == [o \in Objs |->
                 IF o \in newcells
                 THEN create_state(from_dict(bk[idAt(o)]), rootcell(idAt(o)), t)
                 ELSE IF o \in Closure(h, {rs}) THEN h[o] ELSE FreeObj]
        L0 == [c \in Lists |->
                 IF c \in {rootcell(i) : i \in RootIds(bk)} THEN <<>> ELSE L[c]]
    IN [heap |-> rebuild_tree_structure(reg, h0, L0), lists |-> L0, states |-> reg]

----------------------------------------------------------------------------
(* The calls *)

NoContext == <<>>

(* a call and what it returned; for execute_tree also the context it was given
   and, in `log`, one record for every execute() it led to, in order of return *)
ExecCall(res, context, log) ==
    [op |-> "execute_tree", id |-> "", res |-> res, ctx |-> context, log |-> log]

Call(op, id, res) == [op |-> op, id |-> id, res |-> res, ctx |-> NoContext, log |-> <<>>]

(* What a call leaves behind: the object graph, with the cells renumbered *)
Commit(h, L, reg, bk) ==
    LET g == Collect(h, L, reg, root_state, bk, running)
    IN /\ running' = g.running
       /\ heap' = g.heap
       /\ lists' = g.lists
       /\ states' = g.states
       /\ root_state' = g.root_state
       /\ backup' = g.backup

(* one more call, of the MaxCalls the model follows; a call on the behavior tree
   manager leaves the memory manager alone *)
Counted ==
    /\ calls < MaxCalls
    /\ calls' = calls + 1
    /\ UNCHANGED mvars

(* the call is made while no execute_tree coroutine is suspended *)
Quiet == running = Idle /\ UNCHANGED running

(* BehaviorTreeManager.__init__, no behavior_states.json on disk *)
InitTree ==
    /\ heap = [o \in Objs |-> IF o = 1 THEN RootState(1, 0) ELSE FreeObj]
    /\ lists = [c \in Lists |-> <<>>]
    /\ states = [i \in {"root"} |-> 1]
    /\ root_state = 1
    /\ last_modification = DatetimeMin
    /\ now = 0
    /\ file = NoFile
    /\ backup = NoBackup
    /\ last = Call("init", "", "None")
    /\ calls = 0
    /\ accepted_at = DatetimeMin
    /\ running = Idle

(* MemoryManager.__init__ over a data directory without memories.db *)
InitMemory ==
    /\ working_memory = <<>>
    /\ db = <<>>
    /\ issued = <<>>
    /\ tasks = 0
    /\ reading = <<>>

Init == InitTree /\ InitMemory

add_refused_absent_parent_only(d, parent_id) == parent_id \notin DOMAIN states

(* the two checks add_state begins with *)
add_refused(d, parent_id) == d.id \in DOMAIN states \/ parent_id \notin DOMAIN states

(* BehaviorTreeManager.add_state *)
AddState(d, parent_id) ==
    /\ Counted
    /\ UNCHANGED accepted_at
    /\ IF add_refused(d, parent_id)
       THEN /\ last' = Call("add_state", d.id, "BehaviorTreeError")
            /\ UNCHANGED <<heap, lists, states, root_state, last_modification, now,
                           file, backup, running>>
       ELSE /\ FreeObjs # {}
            /\ FreeLists # {}
            /\ LET o == Min(FreeObjs)
                   c == Min(FreeLists)
                   definition == StateDefinition(d.id, d.name, d.type, d.priority,
                                     d.conditions, d.actions, c, d.timeout_seconds,
                                     d.modified_at)
                   L1 == [lists EXCEPT ![c] = IF d.type = "ROOT" THEN <<>> ELSE d.children]
                   p == states[parent_id]
                   pc == heap[p].def.children
                   h1 == [heap EXCEPT ![o] = create_state(definition, c, now),
                                      ![p].kids = Append(@, o)]
                   L2 == IF d.id \in Range(L1[pc]) THEN L1
                         ELSE [L1 EXCEPT ![pc] = Append(@, d.id)]
                   reg == [i \in DOMAIN states \cup {d.id} |->
                             IF i = d.id THEN o ELSE states[i]]
               IN /\ Commit(h1, L2, reg, backup)
                  /\ file' = save_states(reg, h1, L2)
            /\ last' = Call("add_state", d.id, "True")
            /\ UNCHANGED <<last_modification, now>>

(* list.remove: the first occurrence only *)
list_remove(s, x) ==
    LET k == Min({j \in DOMAIN s : s[j] = x})
    IN [j \in 1..(Len(s) - 1) |-> IF j < k THEN s[j] ELSE s[j + 1]]

(* BehaviorState.remove_child *)
remove_child(h, kids, child_id) == SelectSeq(kids, LAMBDA k : h[k].def.id # child_id)

(* the loop of remove_state over self.states.values() *)
RECURSIVE remove_from_parents(_, _, _, _, _)
remove_from_parents(h, L, reg, ids, state_id) ==
    IF ids = <<>> THEN [heap |-> h, lists |-> L]
    ELSE LET o == reg[Head(ids)]
             c == h[o].def.children
         IN IF state_id \in Range(L[c])
            THEN remove_from_parents(
                     [h EXCEPT ![o].kids = remove_child(h, @, state_id)],
                     [L EXCEPT ![c] = list_remove(@, state_id)],
                     reg, Tail(ids), state_id)
            ELSE remove_from_parents(h, L, reg, Tail(ids), state_id)

remove_refused_absent_only(state_id) == state_id \notin DOMAIN states

(* the two checks of remove_state *)
remove_refused(state_id) == state_id = "root" \/ state_id \notin DOMAIN states

(* BehaviorTreeManager.remove_state *)
RemoveState(state_id) ==
    /\ Counted
    /\ UNCHANGED accepted_at
    /\ IF remove_refused(state_id)
       THEN /\ last' = Call("remove_state", state_id, "BehaviorTreeError")
            /\ UNCHANGED <<heap, lists, states, root_state, last_modification, now,
                           file, backup, running>>
       ELSE /\ LET r == remove_from_parents(heap, lists, states, IdSeq(DOMAIN states),
                                            state_id)
                   reg == [i \in DOMAIN states \ {state_id} |-> states[i]]
               IN /\ Commit(r.heap, r.lists, reg, backup)
                  /\ file' = save_states(reg, r.heap, r.lists)
            /\ last' = Call("remove_state", state_id, "True")
            /\ UNCHANGED <<last_modification, now>>

apply_updates_skipped(def, updates, c) == def

(* the setattr loop of modify_state; c is the cell of the new `children` list *)
apply_updates(def, updates, c) ==
    [f \in DOMAIN def |->
        IF f \in DOMAIN updates
        THEN (IF f = "children" THEN c ELSE updates[f])
        ELSE def[f]]

cooldown_never == FALSE

(* the cooldown check of modify_state *)
cooldown_active == now - last_modification < Cooldown

(* BehaviorTreeManager.modify_state *)
ModifyState(state_id, updates) ==
    /\ Counted
    /\ Quiet
    /\ IF state_id \notin DOMAIN states \/ cooldown_active
       THEN /\ last' = Call("modify_state", state_id, "BehaviorTreeError")
            /\ UNCHANGED <<heap, lists, states, root_state, last_modification, now,
                           file, backup, accepted_at>>
       ELSE /\ "children" \in DOMAIN updates => FreeLists # {}
            /\ LET bk == create_backup(states, heap)
                   o == states[state_id]
                   c == IF "children" \in DOMAIN updates THEN Min(FreeLists) ELSE 0
                   def1 == apply_updates(heap[o].def, updates, c)
                   h1 == [heap EXCEPT ![o].def = [def1 EXCEPT !.modified_at = now]]
                   L1 == IF "children" \in DOMAIN updates
                         THEN [lists EXCEPT ![c] = updates.children] ELSE lists
               IN IF validate_tree(states, h1, L1)
                  THEN /\ Commit(h1, L1, states, backup)
                       /\ file' = save_states(states, h1, L1)
                       /\ last' = Call("modify_state", state_id, "True")
                  ELSE /\ RestoreFits(bk, h1, root_state, backup)
                       /\ LET r == restore_backup(bk, h1, L1, root_state, backup, now)
                          IN Commit(r.heap, r.lists, r.states, backup)
                       /\ last' = Call("modify_state", state_id, "False")
                       /\ UNCHANGED file
            /\ last_modification' = now
            /\ accepted_at' = now
            /\ UNCHANGED now

(* str() of a context value, and the value of a numeral *)
Str(v) == CASE v = 5 -> "5" [] v = -1 -> "-1" [] v = 0 -> "0"

Numerals == {"5", "-1", "0"}

Literal(s) == CASE s = "5" -> 5 [] s = "-1" -> -1 [] s = "0" -> 0

Placeholder(key) == CASE key = "x" -> "{x}" [] key = "y" -> "{y}"

(* condition.replace(f"{{{key}}}", str(value)) for every key of the context;
   a condition is the sequence of its tokens *)
substitute(condition, context) ==
    [k \in DOMAIN condition |->
        IF \E key \in DOMAIN context : condition[k] = Placeholder(key)
        THEN Str(context[CHOOSE key \in DOMAIN context : condition[k] = Placeholder(key)])
        ELSE condition[k]]

(* eval(condition): a placeholder that is left is a set display of an unbound
   name and raises, like anything else that is no expression *)
eval(expr) ==
    IF expr = <<"True">> THEN "True"
    ELSE IF expr = <<"False">> THEN "False"
    ELSE IF Len(expr) = 3 /\ expr[2] = ">" /\ expr[1] \in Numerals /\ expr[3] \in Numerals
         THEN (IF Literal(expr[1]) > Literal(expr[3]) THEN "True" ELSE "False")
         ELSE "Exception"

evaluate_condition_unabsorbed(condition, context) ==
    eval(substitute(condition, context)) # "False"

(* BehaviorState._evaluate_condition *)
evaluate_condition(condition, context) == eval(substitute(condition, context)) = "True"

(* BehaviorState.can_execute *)
can_execute(def, context) ==
    \A k \in DOMAIN def.conditions : evaluate_condition(def.conditions[k], context)

RECURSIVE sorted_ascending(_, _)
sorted_ascending(h, kids) ==
    IF kids = <<>> THEN <<>>
    ELSE LET rest == sorted_ascending(h, Tail(kids))
             x == Head(kids)
             k == Cardinality({j \in DOMAIN rest :
                                  h[rest[j]].def.priority < h[x].def.priority})
         IN SubSeq(rest, 1, k) \o <<x>> \o SubSeq(rest, k + 1, Len(rest))

(* sorted(self.children, key=priority, reverse=True): stable *)
RECURSIVE sorted_children(_, _)
sorted_children(h, kids) ==
    IF kids = <<>> THEN <<>>
    ELSE LET rest == sorted_children(h, Tail(kids))
             x == Head(kids)
             k == Cardinality({j \in DOMAIN rest :
                                  h[rest[j]].def.priority > h[x].def.priority})
         IN SubSeq(rest, 1, k) \o <<x>> \o SubSeq(rest, k + 1, Len(rest))

is_timed_out_never(o, k, late) == FALSE

(* BehaviorState.is_timed_out at the k-th check that object o makes: `late`
   names the one check of this call of execute_tree that finds the timeout
   elapsed (the Failure it causes ends the call, so no check follows it) *)
is_timed_out(o, k, late) == late.obj = o /\ late.at = k

NoTimeout == [obj |-> 0, at |-> 0]

(* the record of one execute() in the log *)
NodeRun(o, entered, ran, ret, timed_out) ==
    [obj |-> o, entered |-> entered, ran |-> ran, ret |-> ret, timed_out |-> timed_out]

Returned(ret, h, log) == [ret |-> ret, heap |-> h, log |-> log]

SetStatus(h, o, status) == [h EXCEPT ![o].status = status]

action_execute_unguarded(o, h, log, context, late) ==
    Returned("success", SetStatus(h, o, "success"),
             Append(log, NodeRun(o, TRUE, h[o].def.actions, "success", FALSE)))

(* ActionState.execute; _execute_action returns True for every action *)
action_execute(o, h, log, context, late) ==
    IF ~can_execute(h[o].def, context)
    THEN Returned("failure", h, Append(log, NodeRun(o, FALSE, <<>>, "failure", FALSE)))
    ELSE LET acts == h[o].def.actions
             trips == {k \in DOMAIN acts : is_timed_out(o, k, late)}
         IN IF trips = {}
            THEN Returned("success", SetStatus(h, o, "success"),
                          Append(log, NodeRun(o, TRUE, acts, "success", FALSE)))
            ELSE Returned("failure", SetStatus(h, o, "failure"),
                          Append(log, NodeRun(o, TRUE, SubSeq(acts, 1, Min(trips)),
                                              "failure", TRUE)))

(* ConditionState.execute *)
condition_execute(o, h, log, context) ==
    LET ret == IF can_execute(h[o].def, context) THEN "success" ELSE "failure"
    IN Returned(ret, SetStatus(h, o, ret), Append(log, NodeRun(o, TRUE, <<>>, ret, FALSE)))

RECURSIVE execute(_, _, _, _, _)
RECURSIVE run_children(_, _, _, _, _, _, _, _)

(* the loop of CompositeState.execute over sorted_children, from the k-th on;
   `ran` holds the children executed so far and what they returned *)
run_children(o, sorted, k, ran, h, log, context, late) ==
    IF k > Len(sorted)
    THEN Returned("success", SetStatus(h, o, "success"),
                  Append(log, NodeRun(o, TRUE, ran, "success", FALSE)))
    ELSE IF is_timed_out(o, k, late)
    THEN Returned("failure", SetStatus(h, o, "failure"),
                  Append(log, NodeRun(o, TRUE, ran, "failure", TRUE)))
    ELSE LET r == execute(sorted[k], h, log, context, late)
             ran2 == Append(ran, [obj |-> sorted[k], ret |-> r.ret])
         IN IF r.ret \in {"failure", "running"}
            THEN Returned(r.ret, SetStatus(r.heap, o, r.ret),
                          Append(r.log, NodeRun(o, TRUE, ran2, r.ret, FALSE)))
            ELSE run_children(o, sorted, k + 1, ran2, r.heap, r.log, context, late)

(* CompositeState.execute *)
composite_execute(o, h, log, context, late) ==
    IF ~can_execute(h[o].def, context)
    THEN Returned("failure", h, Append(log, NodeRun(o, FALSE, <<>>, "failure", FALSE)))
    ELSE run_children(o, sorted_children(h, h[o].kids), 1, <<>>,
                      SetStatus(h, o, "running"), log, context, late)

(* BehaviorState.execute, by the class of the object *)
execute(o, h, log, context, late) ==
    CASE h[o].cls = "ActionState" -> action_execute(o, h, log, context, late)
      [] h[o].cls = "ConditionState" -> condition_execute(o, h, log, context)
      [] h[o].cls \in {"CompositeState", "RootState"} ->
             composite_execute(o, h, log, context, late)

(* the checks of is_timed_out that an execution can come to *)
Checks ==
    {NoTimeout} \cup
    {[obj |-> o, at |-> k] : o \in Closure(heap, {root_state}), k \in 1..MaxChecks}

(* BehaviorTreeManager.execute_tree *)
ExecuteTree(context, late) ==
    /\ Counted
    /\ Quiet
    /\ UNCHANGED accepted_at
    /\ LET r == execute(root_state, heap, <<>>, context, late)
       IN /\ heap' = r.heap
          /\ last' = ExecCall(r.ret, context, r.log)
    /\ UNCHANGED <<lists, states, root_state, last_modification, now, file, backup>>

(* a caller takes a snapshot: BehaviorTreeManager.create_backup *)
CreateBackup ==
    /\ Counted
    /\ Quiet
    /\ UNCHANGED accepted_at
    /\ Commit(heap, lists, states, create_backup(states, heap))
    /\ last' = Call("create_backup", "", "dict")
    /\ UNCHANGED <<last_modification, now, file>>

(* a caller hands the snapshot back: BehaviorTreeManager.restore_backup *)
RestoreBackup ==
    /\ Counted
    /\ Quiet
    /\ UNCHANGED accepted_at
    /\ backup # NoBackup
    /\ RestoreFits(backup, heap, root_state, backup)
    /\ LET r == restore_backup(backup, heap, lists, root_state, backup, now)
       IN Commit(r.heap, r.lists, r.states, backup)
    /\ last' = Call("restore_backup", "", "None")
    /\ UNCHANGED <<last_modification, now, file>>

(* a caller asks whether the tree is valid: BehaviorTreeManager.validate_tree *)
ValidateTree ==
    /\ Counted
    /\ last' = Call("validate_tree", "",
                    IF validate_tree(states, heap, lists) THEN "True" ELSE "False")
    /\ UNCHANGED <<heap, lists, states, root_state, last_modification, now, file,
                   backup, accepted_at, running>>

(* BehaviorTreeManager.load_states over the file `data`, called by __init__
   when root is the only state: the entry "root" of the file is skipped, every
   other entry gets an object and a `children` list of its own (json.load
   builds new lists), then the ownership lists are rebuilt.  The object of
   __init__'s RootState() is in cell 1, the others follow in the order of ids *)
load_states(data, t) ==
    LET order == <<"root">> \o IdSeq(DOMAIN data \ {"root"})
        reg == [i \in Range(order) |-> PosIn(order, i)]
        made(k) == IF k = 1 THEN RootState(1, t)
                   ELSE create_state([from_dict(data[order[k]]) EXCEPT !.children = k], k, t)
        h0 == [o \in Objs |-> IF o <= Len(order) THEN made(o) ELSE FreeObj]
        L0 == [c \in Lists |->
                 IF 1 < c /\ c <= Len(order) /\ data[order[c]].type # TypeValue("ROOT")
                 THEN data[order[c]].children ELSE <<>>]
    IN [heap |-> rebuild_tree_structure(reg, h0, L0), lists |-> L0, states |-> reg]

(* the process ends and a new BehaviorTreeManager is constructed over the same
   data directory: BehaviorTreeManager.__init__ *)
Restart ==
    /\ Counted
    /\ Quiet
    /\ LET r == load_states(file, now)
           g == Collect(r.heap, r.lists, r.states, 1, NoBackup, Idle)
       IN /\ heap' = g.heap
          /\ lists' = g.lists
          /\ states' = g.states
          /\ root_state' = g.root_state
    /\ backup' = NoBackup
    /\ last_modification' = DatetimeMin
    /\ accepted_at' = DatetimeMin
    /\ last' = Call("restart", "", "None")
    /\ UNCHANGED <<now, file>>

(* time passes: one tick of the clock *)
Tick ==
    /\ Counted
    /\ UNCHANGED running
    /\ now' = now + 1
    /\ last' = Call("tick", "", "None")
    /\ UNCHANGED <<heap, lists, states, root_state, last_modification, file, backup,
                   accepted_at>>

----------------------------------------------------------------------------
(* The definitions and updates the callers hand in *)

ChildLists == {<<>>, <<"a">>}

Definition(id, type, children) ==
    [id |-> id, name |-> "N", type |-> type, priority |-> DefaultPriority,
     conditions |-> <<>>, actions |-> <<>>, children |-> children,
     timeout_seconds |-> DefaultTimeout, modified_at |-> 0]

AddDefs ==
    {Definition(i, "COMPOSITE", ch) : i \in {"a", "b"}, ch \in ChildLists}

Updates ==
    {[children |-> ch] : ch \in ChildLists}
      \cup {[type |-> "ACTION"], [id |-> "b"], [name |-> "M"]}

Next ==
    \/ \E d \in AddDefs, p \in {"root", "a"} : AddState(d, p)
    \/ \E i \in Ids : RemoveState(i)
    \/ \E i \in Ids, u \in Updates : ModifyState(i, u)
    \/ Tick

Spec == Init /\ [][Next]_vars

(* the same callers, who also ask whether the tree is valid *)
NextValidate ==
    \/ \E d \in AddDefs, p \in {"root", "a"} : AddState(d, p)
    \/ \E i \in Ids : RemoveState(i)
    \/ \E i \in Ids, u \in Updates : ModifyState(i, u)
    \/ ValidateTree

SpecValidate == Init /\ [][NextValidate]_vars

(* the same callers, whose process is restarted now and then *)
NextRestart ==
    \/ \E d \in AddDefs, p \in {"root", "a"} : AddState(d, p)
    \/ \E i \in Ids : RemoveState(i)
    \/ Restart

SpecRestart == Init /\ [][NextRestart]_vars

(* callers whose definitions name a child once, twice or not at all *)
RepeatedLists == {<<>>, <<"b">>, <<"b", "b">>}

RepeatedDefs ==
    {Definition(i, "COMPOSITE", ch) : i \in {"a", "b"}, ch \in RepeatedLists}

NextRepeated ==
    \/ \E d \in RepeatedDefs, p \in {"root", "a"} : AddState(d, p)
    \/ \E i \in {"a", "b"} : RemoveState(i)

SpecRepeated == Init /\ [][NextRepeated]_vars

(* the same callers, who also take snapshots and hand them back *)
NextBackup ==
    \/ \E d \in AddDefs, p \in {"root", "a"} : AddState(d, p)
    \/ \E i \in Ids : RemoveState(i)
    \/ \E i \in Ids, u \in Updates : ModifyState(i, u)
    \/ Tick
    \/ CreateBackup
    \/ RestoreBackup

SpecBackup == Init /\ [][NextBackup]_vars

(* callers who build a tree of actions, conditions and composites and run it *)
CondXPositive == <<"{x}", ">", "0">>

ExecDefinition(id, type, priority, conditions) ==
    [id |-> id, name |-> "N", type |-> type, priority |-> priority,
     conditions |-> conditions,
     actions |-> IF type = "ACTION" THEN <<"act">> ELSE <<>>,
     children |-> <<>>, timeout_seconds |-> 1, modified_at |-> 0]

ExecDefs ==
    {ExecDefinition(i, t, pr, c) :
        i \in {"a", "b"}, t \in {"ACTION", "COMPOSITE"}, pr \in {1, 10},
        c \in {<<>>, <<CondXPositive>>}}
      \cup {ExecDefinition("a", "ACTION", DefaultPriority, <<CondXPositive>>)}

Contexts == {[x |-> 5], [x |-> -1]}

NextExec ==
    \/ \E d \in ExecDefs, p \in {"root", "a"} : AddState(d, p)
    \/ \E i \in {"a", "b"} : RemoveState(i)
    \/ \E c \in Contexts, late \in Checks : ExecuteTree(c, late)

SpecExec == Init /\ [][NextExec]_vars

(* callers who change the root, take and hand back snapshots, add nodes under
   root and run the tree *)
RootRunDefs == {ExecDefinition(i, "ACTION", DefaultPriority, <<>>) : i \in {"a", "b"}}

NextRootRun ==
    \/ \E d \in RootRunDefs : AddState(d, "root")
    \/ \E u \in Updates : ModifyState("root", u)
    \/ CreateBackup
    \/ RestoreBackup
    \/ \E c \in Contexts : ExecuteTree(c, NoTimeout)

SpecRootRun == Init /\ [][NextRootRun]_vars

(* callers who add, remove and change nodes, take and hand back snapshots,
   start the manager again, and run the tree after any of it *)
NextAfterAny ==
    \/ \E d \in AddDefs, p \in {"root", "a"} : AddState(d, p)
    \/ \E i \in Ids : RemoveState(i)
    \/ \E i \in Ids, u \in Updates : ModifyState(i, u)
    \/ CreateBackup
    \/ RestoreBackup
    \/ Restart
    \/ ExecuteTree([x |-> 5], NoTimeout)

SpecAfterAny == Init /\ [][NextAfterAny]_vars

(* callers whose conditions cannot be evaluated: "{x} >" is no expression, and
   "{x} > 0" keeps its placeholder when the context has no x *)
CondMalformed == <<"{x}", ">">>

EvalDefs ==
    {ExecDefinition(i, t, DefaultPriority, <<c>>) :
        i \in {"a", "b"}, t \in {"ACTION", "CONDITION", "COMPOSITE"},
        c \in {CondXPositive, CondMalformed}}

EvalContexts == {[x |-> 5], [y |-> 5]}

NextEval ==
    \/ \E d \in EvalDefs, p \in {"root", "a"} : AddState(d, p)
    \/ \E i \in {"a", "b"} : RemoveState(i)
    \/ \E c \in EvalContexts, late \in Checks : ExecuteTree(c, late)

SpecEval == Init /\ [][NextEval]_vars

----------------------------------------------------------------------------
(* execute_tree as the coroutine it is: it stops at the
   `await self._execute_action(action, context)` of an ActionState and goes on
   when the action runner has returned.  No lock is taken anywhere in
   behavior_tree.py, so the calls of another thread, or of another task once
   the action runner really waits, come in between.  No timeout elapses in the
   runs followed here, and the log of the run is not kept. *)

(* a CompositeState.execute at `await child.execute(context)` for the k-th
   of its sorted_children *)
Frame(o, sorted, k) == [obj |-> o, sorted |-> sorted, k |-> k]

(* the coroutine waits for the at-th action of the ActionState in cell o *)
Awaiting(stack, o, acts, at, context, h) ==
    [done |-> FALSE, ret |-> "pending", heap |-> h,
     co |-> <<[stack |-> stack, obj |-> o, acts |-> acts, at |-> at, ctx |-> context]>>]

(* execute_tree has returned ret *)
Completed(ret, h) == [done |-> TRUE, ret |-> ret, heap |-> h, co |-> Idle]

RECURSIVE enter(_, _, _, _)
RECURSIVE leave(_, _, _, _)
RECURSIVE next_child(_, _, _)

(* a child returns ret to the CompositeState.execute on top of the stack *)
leave(stack, ret, h, context) ==
    IF stack = <<>> THEN Completed(ret, h)
    ELSE LET top == stack[Len(stack)]
             below == SubSeq(stack, 1, Len(stack) - 1)
         IN IF ret \in {"failure", "running"}
            THEN leave(below, ret, SetStatus(h, top.obj, ret), context)
            ELSE next_child(Append(below, Frame(top.obj, top.sorted, top.k + 1)),
                            h, context)

(* the loop of CompositeState.execute, at the k-th of sorted_children *)
next_child(stack, h, context) ==
    LET top == stack[Len(stack)]
    IN IF top.k > Len(top.sorted)
       THEN leave(SubSeq(stack, 1, Len(stack) - 1), "success",
                  SetStatus(h, top.obj, "success"), context)
       ELSE enter(top.sorted[top.k], stack, h, context)

(* BehaviorState.execute is called on the object in cell o *)
enter(o, stack, h, context) ==
    CASE h[o].cls = "ActionState" ->
             IF ~can_execute(h[o].def, context) THEN leave(stack, "failure", h, context)
             ELSE IF h[o].def.actions = <<>>
             THEN leave(stack, "success", SetStatus(h, o, "success"), context)
             ELSE Awaiting(stack, o, h[o].def.actions, 1, context,
                           SetStatus(h, o, "running"))
      [] h[o].cls = "ConditionState" ->
             LET r == condition_execute(o, h, <<>>, context)
             IN leave(stack, r.ret, r.heap, context)
      [] h[o].cls \in {"CompositeState", "RootState"} ->
             IF ~can_execute(h[o].def, context) THEN leave(stack, "failure", h, context)
             ELSE next_child(Append(stack, Frame(o, sorted_children(h, h[o].kids), 1)),
                             SetStatus(h, o, "running"), context)

(* what a step of the coroutine leaves behind *)
Proceed(r, context) ==
    /\ heap' = r.heap
    /\ running' = r.co
    /\ last' = ExecCall(r.ret, context, <<>>)
    /\ UNCHANGED <<lists, states, root_state, last_modification, now, file, backup,
                   accepted_at>>

(* BehaviorTreeManager.execute_tree is called and runs to its first await of
   an action, or to its end *)
StartExecuteTree(context) ==
    /\ Counted
    /\ running = Idle
    /\ Proceed(enter(root_state, <<>>, heap, context), context)

(* _execute_action returns True and the coroutine goes on to its next await
   of an action, or to its end *)
ActionReturns ==
    /\ Counted
    /\ running # Idle
    /\ LET co == running[1]
       IN Proceed(IF co.at < Len(co.acts)
                  THEN Awaiting(co.stack, co.obj, co.acts, co.at + 1, co.ctx, heap)
                  ELSE leave(co.stack, "success", SetStatus(heap, co.obj, "success"),
                             co.ctx),
                  co.ctx)

(* callers who change the tree while it is being run *)
TwoActions == <<"act", "act">>

ConcurrentDefs ==
    {[ExecDefinition(i, t, pr, <<>>) EXCEPT !.actions = IF t = "ACTION" THEN acts ELSE <<>>] :
        i \in {"a", "b"}, t \in {"ACTION", "COMPOSITE"}, pr \in {1, 10},
        acts \in {<<"act">>, TwoActions}}

NextConcurrent ==
    \/ \E d \in ConcurrentDefs, p \in {"root", "a"} : AddState(d, p)
    \/ \E i \in {"a", "b"} : RemoveState(i)
    \/ StartExecuteTree([x |-> 5])
    \/ ActionReturns

SpecConcurrent == Init /\ [][NextConcurrent]_vars

(* callers who build a tree of composites and of actions with one or two
   actions and run it, any one timeout check finding the time elapsed *)
NextTimeout ==
    \/ \E d \in ConcurrentDefs, p \in {"root", "a"} : AddState(d, p)
    \/ \E late \in Checks : ExecuteTree([x |-> 5], late)

SpecTimeout == Init /\ [][NextTimeout]_vars

----------------------------------------------------------------------------
(***************************************************************************)
(* Memory manager (src/ai-companion/src/memory/memory_system.py).          *)
(*                                                                         *)
(* Scores are floats between 0 and 1 in the source; here they are counted  *)
(* in units of 1/One, and One is chosen so that every score the model      *)
(* comes to is a whole number of units.  A text is the sequence of its     *)
(* lower-case words.  The clock is the one of the behavior tree manager;   *)
(* the memories of the model are a whole number of ticks old, and thirty   *)
(* days take ThirtyDays ticks.                                             *)
(***************************************************************************)

MaxMems == 3
MaxMemCalls == 5

One == 120000
ThirtyDays == 2
ConsolidateLimit == 100
ConsolidateQuery == 1000
DefaultLimit == 10

(* 0.3: the least importance find_relevant_memories asks the storage for, the
   relevance it wants exceeded, and the importance consolidation spares *)
MinImportance == (3 * One) \div 10

MemoryType == {"EPISODIC", "SEMANTIC", "WORKING", "PROCEDURAL"}

MemoryTypeValue(t) ==
    CASE t = "EPISODIC" -> "episodic"
      [] t = "SEMANTIC" -> "semantic"
      [] t = "WORKING" -> "working"
      [] t = "PROCEDURAL" -> "procedural"

MemoryTypeOfValue(v) == CHOOSE t \in MemoryType : MemoryTypeValue(t) = v

Max2(a, b) == IF a >= b THEN a ELSE b
Min2(a, b) == IF a <= b THEN a ELSE b

(* content that is a str, as its words, and content that is not *)
Text(words) == [str |-> TRUE, words |-> words]
NotText == [str |-> FALSE, words |-> <<>>]

(* Optional[datetime] *)
None == <<>>
Some(t) == <<t>>

(* the dataclass Memory as store_memory builds it: importance 0.5,
   access_count 0 and last_accessed None by default *)
Memory(id, content, type, tags, context, associated_states, t) ==
    [id |-> id, content |-> content, type |-> type, importance |-> One \div 2,
     timestamp |-> t, associated_states |-> associated_states, access_count |-> 0,
     last_accessed |-> None, tags |-> tags, context |-> context]

(* dict.get(key, default) *)
Get(dict, key, default) == IF key \in DOMAIN dict THEN dict[key] ELSE default

EmptyContext == <<>>

(* len(set(a) & set(b)) / max(len(a), len(b)) *)
overlap(a, b) == (One * Cardinality(Range(a) \cap Range(b))) \div Max2(Len(a), Len(b))

(* ImportanceCalculator._calculate_relevance *)
calculate_relevance(memory, context) ==
    LET context_tags == Get(context, "tags", <<>>)
        current_states == Get(context, "current_states", <<>>)
        current_content == Get(context, "content", <<>>)
        by_tags == IF context_tags # <<>> /\ memory.tags # <<>>
                   THEN overlap(context_tags, memory.tags) ELSE 0
        by_states == IF current_states # <<>> /\ memory.associated_states # <<>>
                     THEN overlap(current_states, memory.associated_states) ELSE 0
        by_content ==
            IF current_content # <<>> /\ memory.content.str /\ memory.content.words # <<>>
            THEN (One * Cardinality(Range(current_content) \cap Range(memory.content.words)))
                     \div Max2(Cardinality(Range(current_content)),
                               Cardinality(Range(memory.content.words)))
            ELSE 0
    IN Min2(One, by_tags + by_states + by_content)

(* the positive, negative and important words of _extract_emotional_weight *)
EmotionalWords ==
    {"happy", "joy", "excited", "great", "wonderful", "amazing",
     "sad", "angry", "frustrated", "terrible", "awful", "hate",
     "important", "critical", "urgent", "remember", "key"}

(* ImportanceCalculator._extract_emotional_weight; the words of the model's
   texts hold an emotional word only by being one *)
extract_emotional_weight(memory) ==
    IF ~memory.content.str THEN One \div 2
    ELSE LET count == Cardinality(EmotionalWords \cap Range(memory.content.words))
         IN Min2(One, Max2(0, One \div 2 + count * (One \div 10)))

(* the weighted average of calculate_importance at time t, before it is
   clamped; the recency factor has a floor of 0.1 and no ceiling *)
weighted_score(memory, context, t) ==
    LET recency == Max2(One \div 10, One - (One * (t - memory.timestamp)) \div ThirtyDays)
        frequency == Min2(One, (One * memory.access_count) \div 10)
        relevance == calculate_relevance(memory, context)
        emotional == extract_emotional_weight(memory)
        state_association == Min2(One, Len(memory.associated_states) * (One \div 5))
    IN (3 * recency + 2 * frequency + 3 * relevance + emotional + state_association)
           \div 10

calculate_importance_unclamped(memory, context, t) == weighted_score(memory, context, t)

(* ImportanceCalculator.calculate_importance *)
calculate_importance(memory, context, t) ==
    Max2(0, Min2(One, weighted_score(memory, context, t)))


----------------------------------------------------------------------------
(* MemoryStorage: the table `memories`.  A storage call that raises inside
   its try block (sqlite3 error, pickle or json error) is told so by `fails` *)

(* the row store_memory writes: the enum by its value *)
to_row(memory) == [memory EXCEPT !.type = MemoryTypeValue(memory.type)]

(* the Memory that retrieve_memory and find_memories build from a row *)
from_row(row) == [row EXCEPT !.type = MemoryTypeOfValue(row.type)]

(* INSERT OR REPLACE: a row of the same id is deleted, the new row is appended *)
insert_or_replace(rows, row) == Append(SelectSeq(rows, LAMBDA r : r.id # row.id), row)

storage_store_memory_uncommitted(rows, memory, fails) == [ok |-> TRUE, rows |-> rows]

(* MemoryStorage.store_memory *)
storage_store_memory(rows, memory, fails) ==
    IF fails THEN [ok |-> FALSE, rows |-> rows]
    ELSE [ok |-> TRUE, rows |-> insert_or_replace(rows, to_row(memory))]

storage_retrieve_memory_unguarded(rows, memory_id, fails) ==
    LET found == SelectSeq(rows, LAMBDA r : r.id = memory_id)
    IN IF found = <<>> THEN <<>> ELSE <<from_row(found[1])>>

(* MemoryStorage.retrieve_memory: None, or the Memory of the row *)
storage_retrieve_memory(rows, memory_id, fails) ==
    LET found == SelectSeq(rows, LAMBDA r : r.id = memory_id)
    IN IF fails \/ found = <<>> THEN <<>> ELSE <<from_row(found[1])>>

(* ORDER BY importance DESC, timestamp DESC: r comes before q *)
row_before(r, q) ==
    \/ r.importance > q.importance
    \/ r.importance = q.importance /\ r.timestamp > q.timestamp

(* the rows in the order of the query: those that come before all others
   first; rows that tie keep their rowid order *)
RECURSIVE order_by(_)
order_by(rows) ==
    IF rows = <<>> THEN <<>>
    ELSE LET keys == {<<r.importance, r.timestamp>> : r \in Range(rows)}
             top == CHOOSE k \in keys :
                        \A j \in keys : ~row_before([importance |-> j[1], timestamp |-> j[2]],
                                                    [importance |-> k[1], timestamp |-> k[2]])
             ties(r) == <<r.importance, r.timestamp>> = top
         IN SelectSeq(rows, ties) \o order_by(SelectSeq(rows, LAMBDA r : ~ties(r)))

Take(seq, limit) == SubSeq(seq, 1, Min2(limit, Len(seq)))

(* MemoryStorage.find_memories; memory_type and tags are None (<<>>) or
   <<value>>; the tags are looked at after the query has cut at `limit` *)
find_memories(rows, memory_type, min_importance, limit, tags, fails) ==
    IF fails THEN <<>>
    ELSE LET matching == SelectSeq(rows, LAMBDA r :
                             /\ r.importance >= min_importance
                             /\ memory_type # <<>> => r.type = MemoryTypeValue(memory_type[1]))
             fetched == Take(order_by(matching), limit)
             memories == [k \in DOMAIN fetched |-> from_row(fetched[k])]
         IN SelectSeq(memories, LAMBDA mem :
                (tags # <<>> /\ tags[1] # <<>>) => Range(tags[1]) \cap Range(mem.tags) # {})

(* MemoryStorage.delete_memory *)
delete_memory(rows, memory_id, fails) ==
    IF fails THEN [ok |-> FALSE, rows |-> rows]
    ELSE [ok |-> TRUE, rows |-> SelectSeq(rows, LAMBDA r : r.id # memory_id)]

(* MemoryStorage.get_memory_count *)
get_memory_count(rows, fails) == IF fails THEN 0 ELSE Len(rows)

----------------------------------------------------------------------------
(* MemoryManager.  max_memories is the argument of the constructor; the
   managers of the model are built with max_memories=1 *)

MaxMemories == 1

MemCounted ==
    /\ calls < MaxMemCalls
    /\ calls' = calls + 1
    /\ UNCHANGED <<tvars, now>>

(* a call on the memory manager: `id` is the id it was given or returned, `res`
   the memories it returned (none, one or several), `args` what else it was
   given *)
MemCall(op, id, res, args) == [op |-> op, id |-> id, res |-> res, args |-> args]

NoFailure == {}

(* MemoryManager.store_memory; uuid4() hands out an id never seen before:
   the ids of the model are 1, 2, ... in the order of the calls, and `issued`
   keeps the type each was asked for *)
StoreMemory(content, memory_type, tags, context, associated_states, failing) ==
    /\ MemCounted
    /\ Len(issued) < MaxMems
    /\ LET memory_id == Len(issued) + 1
           fresh == Memory(memory_id, content, memory_type, tags, context,
                           associated_states, now)
           memory == [fresh EXCEPT
                         !.importance = calculate_importance(fresh, context, now)]
           stored == IF memory_type = "WORKING" THEN db
                     ELSE storage_store_memory(db, memory, "store" \in failing).rows
       IN /\ issued' = Append(issued, memory_type)
          /\ working_memory' = IF memory_type = "WORKING"
                               THEN [i \in DOMAIN working_memory \cup {memory_id} |->
                                        IF i = memory_id THEN memory ELSE working_memory[i]]
                               ELSE working_memory
          /\ db' = stored
          /\ tasks' = IF get_memory_count(stored, "count" \in failing) > MaxMemories
                      THEN tasks + 1 ELSE tasks
          /\ UNCHANGED reading
          /\ last' = MemCall("store_memory", memory_id, <<>>,
                             [type |-> memory_type, failing |-> failing])

(* MemoryManager.store_memory called from code that runs outside an event
   loop: asyncio.create_task raises RuntimeError("no running event loop"), after
   the memory has been stored, and the caller gets no id *)
StoreMemoryNoLoop(content, memory_type, tags, context, associated_states, failing) ==
    /\ MemCounted
    /\ Len(issued) < MaxMems
    /\ LET memory_id == Len(issued) + 1
           fresh == Memory(memory_id, content, memory_type, tags, context,
                           associated_states, now)
           memory == [fresh EXCEPT
                         !.importance = calculate_importance(fresh, context, now)]
           stored == IF memory_type = "WORKING" THEN db
                     ELSE storage_store_memory(db, memory, "store" \in failing).rows
           raises == get_memory_count(stored, "count" \in failing) > MaxMemories
       IN /\ issued' = Append(issued, memory_type)
          /\ working_memory' = IF memory_type = "WORKING"
                               THEN [i \in DOMAIN working_memory \cup {memory_id} |->
                                        IF i = memory_id THEN memory ELSE working_memory[i]]
                               ELSE working_memory
          /\ db' = stored
          /\ UNCHANGED <<tasks, reading>>
          /\ last' = MemCall("store_memory", IF raises THEN 0 ELSE memory_id, <<>>,
                             [type |-> memory_type, failing |-> failing,
                              raised |-> IF raises THEN "RuntimeError" ELSE ""])

retrieve_without_counting(memory, t) == [memory EXCEPT !.last_accessed = Some(t)]

(* the access stats retrieve_memory updates on a hit, at time t *)
accessed(memory, t) ==
    [memory EXCEPT !.access_count = @ + 1, !.last_accessed = Some(t)]

(* MemoryManager.retrieve_memory *)
RetrieveMemory(memory_id, failing) ==
    /\ MemCounted
    /\ LET cached == memory_id \in DOMAIN working_memory
           found == IF cached THEN <<working_memory[memory_id]>>
                    ELSE storage_retrieve_memory(db, memory_id, "retrieve" \in failing)
       IN IF found = <<>>
          THEN /\ last' = MemCall("retrieve_memory", memory_id, <<>>,
                                  [failing |-> failing])
               /\ UNCHANGED <<working_memory, db>>
          ELSE LET seen == accessed(found[1], now)
                   memory == [seen EXCEPT
                                 !.importance = calculate_importance(seen, EmptyContext, now)]
               IN /\ working_memory' = IF cached
                                       THEN [working_memory EXCEPT ![memory_id] = memory]
                                       ELSE working_memory
                  /\ db' = IF memory.type # "WORKING"
                           THEN storage_store_memory(db, memory, "store" \in failing).rows
                           ELSE db
                  /\ last' = MemCall("retrieve_memory", memory_id, <<memory>>,
                                     [failing |-> failing])
    /\ UNCHANGED <<issued, tasks, reading>>

(* retrieve_memory called in a thread of its own, up to the return of
   self.storage.retrieve_memory (lines 409-412): nothing in memory_system.py
   keeps a consolidation pass from running between this read and the
   write-back of line 423 *)
RetrieveReads(memory_id) ==
    /\ MemCounted
    /\ reading = <<>>
    /\ memory_id \notin DOMAIN working_memory
    /\ LET found == storage_retrieve_memory(db, memory_id, FALSE)
       IN IF found = <<>>
          THEN /\ last' = MemCall("retrieve_memory", memory_id, <<>>,
                                  [failing |-> NoFailure])
               /\ UNCHANGED reading
          ELSE /\ last' = MemCall("retrieve_memory_read", memory_id, <<>>,
                                  [failing |-> NoFailure])
               /\ reading' = found
    /\ UNCHANGED <<working_memory, db, issued, tasks>>

(* the rest of that retrieve_memory: lines 414-428 *)
RetrieveWritesBack ==
    /\ MemCounted
    /\ reading # <<>>
    /\ LET seen == accessed(reading[1], now)
           memory == [seen EXCEPT
                         !.importance = calculate_importance(seen, EmptyContext, now)]
       IN /\ db' = IF memory.type # "WORKING"
                   THEN storage_store_memory(db, memory, FALSE).rows
                   ELSE db
          /\ last' = MemCall("retrieve_memory", memory.id, <<memory>>,
                             [failing |-> NoFailure])
    /\ reading' = <<>>
    /\ UNCHANGED <<working_memory, issued, tasks>>

(* list.sort(key=importance, reverse=True): stable *)
RECURSIVE sort_by_importance(_)
sort_by_importance(memories) ==
    IF memories = <<>> THEN <<>>
    ELSE LET n == Len(memories)
             rest == sort_by_importance(SubSeq(memories, 1, n - 1))
             x == memories[n]
             k == Cardinality({j \in DOMAIN rest : rest[j].importance >= x.importance})
         IN SubSeq(rest, 1, k) \o <<x>> \o SubSeq(rest, k + 1, Len(rest))

DefaultTypes == <<"EPISODIC", "SEMANTIC", "PROCEDURAL">>

(* the values of the cache, in the order of insertion *)
cache_values(cache) ==
    LET ids == SortedSeq(DOMAIN cache) IN [k \in DOMAIN ids |-> cache[ids[k]]]

(* what the loop of find_relevant_memories gathers for one type *)
relevant_of_type(cache, rows, memory_type, context, limit, failing) ==
    IF memory_type = "WORKING"
    THEN SelectSeq(cache_values(cache),
                   LAMBDA mem : calculate_relevance(mem, context) > MinImportance)
    ELSE LET memories == find_memories(rows, <<memory_type>>, MinImportance, limit, <<>>,
                                       memory_type \in failing)
             kept == SelectSeq(memories,
                         LAMBDA mem : calculate_relevance(mem, context) > MinImportance)
         IN [k \in DOMAIN kept |->
                [kept[k] EXCEPT
                    !.importance = Max2(@, calculate_relevance(kept[k], context))]]

RECURSIVE gather(_, _, _, _, _, _)
gather(cache, rows, types, context, limit, failing) ==
    IF types = <<>> THEN <<>>
    ELSE relevant_of_type(cache, rows, Head(types), context, limit, failing)
            \o gather(cache, rows, Tail(types), context, limit, failing)

(* MemoryManager.find_relevant_memories; memory_types is None (<<>>) or a list *)
find_relevant_memories(cache, rows, context, memory_types, limit, failing) ==
    LET types_to_search == IF memory_types = <<>> THEN DefaultTypes ELSE memory_types
    IN Take(sort_by_importance(gather(cache, rows, types_to_search, context, limit,
                                      failing)), limit)

FindRelevantMemories(context, memory_types, limit, failing) ==
    /\ MemCounted
    /\ last' = MemCall("find_relevant_memories", 0,
                       find_relevant_memories(working_memory, db, context, memory_types,
                                              limit, failing),
                       [context |-> context, memory_types |-> memory_types,
                        limit |-> limit, failing |-> failing])
    /\ UNCHANGED mvars

ClearWorkingMemoryLogOnly ==
    /\ MemCounted
    /\ last' = MemCall("clear_working_memory", 0, <<>>, [failing |-> NoFailure])
    /\ UNCHANGED mvars

(* MemoryManager.clear_working_memory *)
ClearWorkingMemory ==
    /\ MemCounted
    /\ working_memory' = <<>>
    /\ last' = MemCall("clear_working_memory", 0, <<>>, [failing |-> NoFailure])
    /\ UNCHANGED <<db, issued, tasks, reading>>

(* the limit of the query by which get_memory_stats counts a durable type *)
StatsQuery == 1000

(* MemoryManager.get_memory_stats *)
get_memory_stats(cache, rows, failing) ==
    [total_memories |-> get_memory_count(rows, "count" \in failing),
     working_memory_count |-> Cardinality(DOMAIN cache),
     memory_types |->
        [v \in {MemoryTypeValue(t) : t \in MemoryType} |->
            IF MemoryTypeOfValue(v) = "WORKING"
            THEN Cardinality({i \in DOMAIN cache : cache[i].type = "WORKING"})
            ELSE Len(find_memories(rows, <<MemoryTypeOfValue(v)>>, 0, StatsQuery, <<>>,
                                   "find" \in failing))]]

GetMemoryStats(failing) ==
    /\ MemCounted
    /\ last' = MemCall("get_memory_stats", 0,
                       <<get_memory_stats(working_memory, db, failing)>>,
                       [failing |-> failing])
    /\ UNCHANGED mvars

(* the condition under which _consolidate_memories picks a memory *)
low_value(memory, cutoff_date) ==
    /\ memory.timestamp < cutoff_date
    /\ memory.importance < MinImportance
    /\ memory.access_count < 2

ConsolidatedTypes == <<"EPISODIC", "SEMANTIC">>

(* memories_to_remove: the ids the two queries of _consolidate_memories yield *)
RECURSIVE memories_to_remove(_, _, _, _)
memories_to_remove(rows, types, cutoff_date, failing) ==
    IF types = <<>> THEN <<>>
    ELSE LET memories == find_memories(rows, <<Head(types)>>, 0, ConsolidateQuery, <<>>,
                                       "find" \in failing)
             picked == SelectSeq(memories, LAMBDA mem : low_value(mem, cutoff_date))
         IN [k \in DOMAIN picked |-> picked[k].id]
               \o memories_to_remove(rows, Tail(types), cutoff_date, failing)

remove_all(ids) == ids

(* memories_to_remove[:100] *)
remove_some(ids) == Take(ids, ConsolidateLimit)

(* the task store_memory created runs: MemoryManager._consolidate_memories,
   which has no await and so runs from its first line to its last *)
ConsolidateMemories(failing) ==
    /\ MemCounted
    /\ tasks > 0
    /\ tasks' = tasks - 1
    /\ LET cutoff_date == now - ThirtyDays
           chosen == remove_some(memories_to_remove(db, ConsolidatedTypes, cutoff_date,
                                                    failing))
       IN \E removed \in {IF "delete" \in failing THEN <<>> ELSE chosen} :
             /\ db' = SelectSeq(db, LAMBDA r : r.id \notin Range(removed))
             /\ last' = MemCall("consolidate_memories", 0, <<>>,
                                [removed |-> removed, failing |-> failing])
    /\ UNCHANGED <<working_memory, issued, reading>>

(* time passes between two calls on the memory manager *)
Elapse(d) ==
    /\ calls < MaxMemCalls
    /\ calls' = calls + 1
    /\ now' = now + d
    /\ last' = MemCall("elapse", 0, <<>>, [d |-> d])
    /\ UNCHANGED <<tvars, mvars>>

----------------------------------------------------------------------------
(* The callers of the memory manager *)

Weather == Text(<<"weather">>)

StoredTypes == {"EPISODIC", "PROCEDURAL", "WORKING"}

TagX == [tags |-> <<"x">>]

NextMemory ==
    \/ \E t \in StoredTypes : StoreMemory(Weather, t, <<"x">>, EmptyContext, <<>>, NoFailure)
    \/ \E i \in 1..MaxMems : RetrieveMemory(i, NoFailure)
    \/ \E types \in {<<>>, <<"WORKING">>} :
          FindRelevantMemories(TagX, types, DefaultLimit, NoFailure)
    \/ ClearWorkingMemory
    \/ ConsolidateMemories(NoFailure)
    \/ \E d \in {1, ThirtyDays + 1} : Elapse(d)

SpecMemory == Init /\ [][NextMemory]_vars

(* callers in plain synchronous code, no event loop running *)
NextNoLoop ==
    \/ \E t \in StoredTypes :
          StoreMemoryNoLoop(Weather, t, <<"x">>, EmptyContext, <<>>, NoFailure)
    \/ \E i \in 1..MaxMems : RetrieveMemory(i, NoFailure)
    \/ ClearWorkingMemory
    \/ \E d \in {1, ThirtyDays + 1} : Elapse(d)

SpecNoLoop == Init /\ [][NextNoLoop]_vars

(* a caller of the storage's query: MemoryStorage.find_memories *)
FindMemories(memory_type, min_importance, limit, tags) ==
    /\ MemCounted
    /\ last' = MemCall("find_memories", 0,
                       find_memories(db, memory_type, min_importance, limit, tags, FALSE),
                       [memory_type |-> memory_type, min_importance |-> min_importance,
                        limit |-> limit, tags |-> tags])
    /\ UNCHANGED mvars

(* callers who store memories tagged "x" or "y" at different times and query
   the storage by type, least importance, limit and tag *)
NextFind ==
    \/ \E t \in {"EPISODIC", "PROCEDURAL"}, tg \in {<<"x">>, <<"y">>} :
          StoreMemory(Weather, t, tg, EmptyContext, <<>>, NoFailure)
    \/ \E mt \in {<<>>, <<"EPISODIC">>}, mi \in {0, MinImportance}, lim \in {1, 2},
          tags \in {<<>>, <<<<"x">>>>} : FindMemories(mt, mi, lim, tags)
    \/ Elapse(1)

SpecFind == Init /\ [][NextFind]_vars

(* a caller of the calculator alone: ImportanceCalculator.calculate_importance
   on a memory and a context of its own making *)
CalculateImportance(memory, context) ==
    /\ MemCounted
    /\ last' = MemCall("calculate_importance", memory.id,
                       <<[memory EXCEPT
                             !.importance = calculate_importance(memory, context, now)]>>,
                       [context |-> context])
    /\ UNCHANGED mvars

(* five emotional words and one other *)
Moved == Text(<<"happy", "joy", "great", "sad", "angry", "weather">>)

SixStates == <<"s", "t", "u", "v", "w", "z">>

FullContext == [tags |-> <<"x">>, current_states |-> <<"s">>, content |-> <<"weather">>]

(* memories with empty and with full tag, state and content sets, never and
   often accessed, stamped one tick ahead of the clock's start, at it, and
   three ticks before it *)
ScoreMemories ==
    {[Memory(1, c, "EPISODIC", tg, EmptyContext, st, ts) EXCEPT !.access_count = n] :
        c \in {NotText, Text(<<>>), Moved}, tg \in {<<>>, <<"x">>},
        st \in {<<>>, <<"s">>, SixStates}, ts \in {1, 0, -3}, n \in {0, 20}}

NextScore ==
    \/ \E mem \in ScoreMemories, c \in {EmptyContext, FullContext} :
          CalculateImportance(mem, c)
    \/ \E d \in {1, ThirtyDays + 1} : Elapse(d)

SpecScore == Init /\ [][NextScore]_vars

(* the same callers over a durable store whose calls can fail: each call of
   the manager is told which of its storage calls raise *)
NextFaulty ==
    \/ \E t \in {"EPISODIC", "WORKING"}, f \in SUBSET {"store", "count"} :
          StoreMemory(Weather, t, <<"x">>, EmptyContext, <<>>, f)
    \/ \E i \in 1..MaxMems, f \in SUBSET {"retrieve", "store"} : RetrieveMemory(i, f)
    \/ \E f \in {NoFailure, {"EPISODIC"}} :
          FindRelevantMemories(TagX, <<>>, DefaultLimit, f)
    \/ ClearWorkingMemory
    \/ \E f \in {NoFailure, {"find"}, {"delete"}} : ConsolidateMemories(f)
    \/ \E d \in {1, ThirtyDays + 1} : Elapse(d)

SpecFaulty == Init /\ [][NextFaulty]_vars

(* A manager built over the memories.db that earlier managers have left in the
   data directory.  The rows have ids of their own (FirstOld, FirstOld + 1,
   ...); the first n are old, of low importance and rarely accessed,
   Episodic and Semantic in turn; five more are each spared by one clause of
   the condition of _consolidate_memories. *)
FirstOld == 1001

OldRow(id, type, importance, timestamp, access_count) ==
    [to_row(Memory(id, Weather, type, <<"x">>, EmptyContext, <<>>, timestamp))
        EXCEPT !.importance = importance, !.access_count = access_count]

LowValueRows(n) ==
    [k \in 1..n |->
        OldRow(FirstOld + k - 1, IF k % 2 = 1 THEN "EPISODIC" ELSE "SEMANTIC",
               One \div 10, 0 - (ThirtyDays + 1), k % 2)]

SparedRows(n) ==
    <<OldRow(FirstOld + n, "EPISODIC", One \div 10, 0 - (ThirtyDays + 1), 2),
      OldRow(FirstOld + n + 1, "SEMANTIC", MinImportance, 0 - (ThirtyDays + 1), 0),
      OldRow(FirstOld + n + 2, "EPISODIC", One \div 10, 0 - ThirtyDays, 0),
      OldRow(FirstOld + n + 3, "SEMANTIC", One \div 10, 0, 0),
      OldRow(FirstOld + n + 4, "PROCEDURAL", One \div 10, 0 - (ThirtyDays + 1), 0)>>

InitOldStore ==
    /\ InitTree
    /\ working_memory = <<>>
    /\ issued = <<>>
    /\ tasks = 0
    /\ reading = <<>>
    /\ \E n \in {2, ConsolidateLimit, ConsolidateLimit + 2} :
          db = LowValueRows(n) \o SparedRows(n)

NextOldStore ==
    \/ StoreMemory(Weather, "EPISODIC", <<"x">>, EmptyContext, <<>>, NoFailure)
    \/ \E i \in {1, FirstOld, FirstOld + 1} : RetrieveMemory(i, NoFailure)
    \/ ConsolidateMemories(NoFailure)
    \/ \E d \in {1, ThirtyDays + 1} : Elapse(d)

SpecOldStore == InitOldStore /\ [][NextOldStore]_vars

(* A manager built over a memories.db that holds as many recent, important
   Episodic rows as one query of _consolidate_memories fetches, and two old
   rows of low importance, one Episodic and one Semantic; its callers store,
   retrieve and ask for the statistics *)
ImportantRows(n) ==
    [k \in 1..n |->
        OldRow(FirstOld + ConsolidateQuery + k, "EPISODIC", One \div 2, 0, 0)]

InitFullStore ==
    /\ InitTree
    /\ working_memory = <<>>
    /\ issued = <<>>
    /\ tasks = 0
    /\ reading = <<>>
    /\ db = ImportantRows(ConsolidateQuery) \o LowValueRows(2)

NextFullStore ==
    \/ \E t \in {"EPISODIC", "SEMANTIC"} :
          StoreMemory(Weather, t, <<"x">>, EmptyContext, <<>>, NoFailure)
    \/ \E i \in {1, FirstOld, FirstOld + 1} : RetrieveMemory(i, NoFailure)
    \/ ConsolidateMemories(NoFailure)
    \/ GetMemoryStats(NoFailure)
    \/ \E d \in {1, ThirtyDays + 1} : Elapse(d)

SpecFullStore == InitFullStore /\ [][NextFullStore]_vars

(* A manager over a memories.db with two old rows of low importance (and the
   spared ones), used from two threads: one stores, or retrieves in two steps,
   while the consolidation task runs on the event loop *)
InitOverlap ==
    /\ InitTree
    /\ working_memory = <<>>
    /\ issued = <<>>
    /\ tasks = 0
    /\ reading = <<>>
    /\ db = LowValueRows(2) \o SparedRows(2)

NextOverlap ==
    \/ \E t \in {"EPISODIC", "SEMANTIC"} :
          StoreMemory(Weather, t, <<"x">>, EmptyContext, <<>>, NoFailure)
    \/ \E i \in {1, FirstOld, FirstOld + 1, FirstOld + 2} : RetrieveReads(i)
    \/ RetrieveWritesBack
    \/ ConsolidateMemories(NoFailure)
    \/ \E d \in {1, ThirtyDays + 1} : Elapse(d)

SpecOverlap == InitOverlap /\ [][NextOverlap]_vars

----------------------------------------------------------------------------
(* What a caller can observe of the graph *)

(* a definition with its child ids written out *)
DefView(o) == [heap[o].def EXCEPT !.children = lists[@]]

(* the ids of the BehaviorState objects in the ownership list of o *)
KidIds(o) == [k \in DOMAIN heap[o].kids |-> heap[heap[o].kids[k]].def.id]

Definitions == [i \in DOMAIN states |-> DefView(states[i])]

Ownership == [i \in DOMAIN states |-> KidIds(states[i])]

(* execute_tree runs the object the registry holds under "root" *)
ExecutesRegistryRoot == "root" \in DOMAIN states /\ root_state = states["root"]

Mutating == {"add_state", "remove_state", "modify_state"}

----------------------------------------------------------------------------
(* C1: after every addState / removeState / modifyState call that succeeded,
   validateTree() returns true: no cycle and no dangling child reference is
   reachable from root. *)
C1_ValidAfterSuccess ==
    (last.op \in Mutating /\ last.res = "True") => validate_tree(states, heap, lists)

(* C2: a modifyState call that fails (returns failure after validation failed,
   or is rejected) leaves the tree as it was: same ids, same field values, same
   child-id lists and ownership lists, same root executed by executeTree. *)
C2_FailedModifyLeavesTree ==
    [][(last'.op = "modify_state" /\ last'.res \in {"False", "BehaviorTreeError"})
        => /\ Definitions' = Definitions
           /\ Ownership' = Ownership
           /\ ExecutesRegistryRoot' = ExecutesRegistryRoot]_vars

(* C3: restoreBackup(createBackup()) yields a graph identical to the one before:
   same ids, same field values, same ordered child-id list for every node, root
   included. *)
C3_BackupRoundTrip ==
    [][(last'.op = "restore_backup" /\ backup = create_backup(states, heap))
        => Definitions' = Definitions]_vars

(* C4: the registry always holds an entry "root" of type Root; it is never
   removed or re-typed. *)
C4_RootAlwaysRoot ==
    /\ "root" \in DOMAIN states
    /\ heap[states["root"]].def.type = "ROOT"

(* C5: removeState("root") fails with an error in every state, and the registry,
   every child-id list and every ownership list are unchanged by it. *)
C5_RemoveRootFails ==
    [][(last'.op = "remove_state" /\ last'.id = "root")
        => /\ last'.res = "BehaviorTreeError"
           /\ DOMAIN states' = DOMAIN states
           /\ Definitions' = Definitions
           /\ Ownership' = Ownership]_vars

C5_Witness ==
    /\ last = Call("remove_state", "root", "BehaviorTreeError")
    /\ Cardinality(DOMAIN states) = 3

(* C6: a modifyState call on an existing id, issued before the cooldown has
   elapsed since the previous modifyState call that was let through, is rejected
   with an error and changes no field of any definition. *)
C6_CooldownRejects ==
    [][(/\ last'.op = "modify_state"
        /\ last'.id \in DOMAIN states
        /\ now - accepted_at < Cooldown)
        => /\ last'.res = "BehaviorTreeError"
           /\ Definitions' = Definitions]_vars

C6_Witness ==
    /\ last = Call("modify_state", "a", "BehaviorTreeError")
    /\ "a" \in DOMAIN states
    /\ now - accepted_at < Cooldown

(* C7: a modifyState call that returned failure (validation failed, rolled back)
   does not make the modifyState call that follows it at once be rejected by
   the cooldown. *)
C7_FailureStartsNoCooldown ==
    [][(/\ last.op = "modify_state" /\ last.res = "False"
        /\ last'.op = "modify_state" /\ last'.id \in DOMAIN states)
        => last'.res # "BehaviorTreeError"]_vars

(* C8: for every registered node, the ids of the child objects in its ownership
   list are its definition's child-id list. *)
C8_OwnershipMirrorsChildren ==
    \A i \in DOMAIN states : KidIds(states[i]) = ChildIds(heap, lists, states[i])

----------------------------------------------------------------------------
(* Execution, as the log of the last execute_tree shows it *)

Composites == {"CompositeState", "RootState"}

Priority(o) == heap[o].def.priority

(* kids[i] runs before kids[j]: higher priority first, ties in insertion order *)
Before(kids, i, j) ==
    \/ Priority(kids[i]) > Priority(kids[j])
    \/ Priority(kids[i]) = Priority(kids[j]) /\ i < j

PriorityOrder(kids) ==
    [p \in DOMAIN kids |->
        kids[CHOOSE i \in DOMAIN kids :
                Cardinality({j \in DOMAIN kids : Before(kids, j, i)}) = p - 1]]

LogOf(cls) ==
    {last.log[n] : n \in {m \in DOMAIN last.log : heap[last.log[m].obj].cls \in cls}}

(* C9: within one executeTree call a Composite whose conditions hold executes
   its children one at a time in descending priority order, ties in insertion
   order; the first child that returns Failure makes it return Failure and no
   later sibling runs; if every child returns Success it returns Success. *)
C9_CompositeSequence ==
    last.op = "execute_tree" =>
        \A r \in LogOf(Composites) :
            can_execute(heap[r.obj].def, last.ctx) =>
                LET order == PriorityOrder(heap[r.obj].kids)
                    n == Len(r.ran)
                IN /\ r.entered
                   /\ n <= Len(order)
                   /\ \A k \in 1..n : r.ran[k].obj = order[k]
                   /\ \A k \in 1..n : k < n => r.ran[k].ret = "success"
                   /\ (n > 0 /\ r.ran[n].ret = "failure") => r.ret = "failure"
                   /\ (n = Len(order) /\ \A k \in 1..n : r.ran[k].ret = "success")
                          => r.ret = "success"

(* children of priority 10 (succeeding) and 1 (failing), the second added first:
   both run, in that order, and the result is Failure *)
C9_Witness ==
    /\ last.op = "execute_tree"
    /\ last.res = "failure"
    /\ \A n \in DOMAIN last.log : ~last.log[n].timed_out
    /\ \E r \in LogOf(Composites) :
          /\ r.obj = root_state
          /\ Len(r.ran) = 2
          /\ heap[r.obj].kids = <<r.ran[2].obj, r.ran[1].obj>>
          /\ Priority(r.ran[1].obj) = 10 /\ r.ran[1].ret = "success"
          /\ Priority(r.ran[2].obj) = 1 /\ r.ran[2].ret = "failure"

(* the tree of the scenario: Action a1 (priority 5, condition "{x}>0", one
   action, timeout 1s) alone under root *)
ScenarioA1 ==
    /\ DOMAIN states = {"root", "a"}
    /\ ExecutesRegistryRoot
    /\ heap[root_state].kids = <<states["a"]>>
    /\ heap[states["a"]].cls = "ActionState"
    /\ DefView(states["a"])
         = [ExecDefinition("a", "ACTION", 5, <<CondXPositive>>) EXCEPT !.children = <<>>]
    /\ DefView(root_state).conditions = <<>>

(* C10: an Action node whose conditions are not all true returns Failure and
   runs none of its actions; one whose conditions are all true and which does
   not time out returns Success.  For a1 with condition "{x}>0" under root,
   executeTree({x: 5}) returns Success and executeTree({x: -1}) Failure. *)
C10_ActionNode ==
    last.op = "execute_tree" =>
        /\ \A r \in LogOf({"ActionState"}) :
              IF can_execute(heap[r.obj].def, last.ctx)
              THEN ~r.timed_out => (r.ret = "success" /\ r.ran = heap[r.obj].def.actions)
              ELSE r.ret = "failure" /\ r.ran = <<>>
        /\ (ScenarioA1 /\ \A n \in DOMAIN last.log : ~last.log[n].timed_out) =>
              /\ last.ctx.x = 5 => last.res = "success"
              /\ last.ctx.x = -1 =>
                    /\ last.res = "failure"
                    /\ \A r \in LogOf({"ActionState"}) : r.ran = <<>>

C10_Witness ==
    /\ last.op = "execute_tree"
    /\ ScenarioA1
    /\ last.ctx.x = -1
    /\ last.res = "failure"
    /\ LogOf({"ActionState"}) # {}

----------------------------------------------------------------------------
(* the evaluation of some condition of def raises in eval *)
EvaluationFails(def, context) ==
    \E k \in DOMAIN def.conditions :
        eval(substitute(def.conditions[k], context)) = "Exception"

(* C11: a condition whose evaluation fails (malformed expression, placeholder
   with no context value) counts as false: canExecute is false, execute of the
   node returns Failure without running an action, and executeTree returns a
   status, no error. *)
C11_EvaluationFailureIsFalse ==
    last.op = "execute_tree" =>
        /\ last.res \in {"success", "failure", "running"}
        /\ \A n \in DOMAIN last.log :
              EvaluationFails(heap[last.log[n].obj].def, last.ctx) =>
                  /\ ~can_execute(heap[last.log[n].obj].def, last.ctx)
                  /\ last.log[n].ret = "failure"
                  /\ last.log[n].ran = <<>>

(* an Action whose "{x} > 0" meets a context without x, and a Composite whose
   condition is malformed, both executed under root *)
C11_Witness ==
    /\ last.op = "execute_tree"
    /\ last.ctx = [y |-> 5]
    /\ \E n \in DOMAIN last.log :
          /\ heap[last.log[n].obj].cls = "ActionState"
          /\ heap[last.log[n].obj].def.conditions = <<CondXPositive>>
          /\ last.log[n].ret = "failure"

----------------------------------------------------------------------------
(* the graph as a caller sees it is the same before and after the step *)
GraphUnchanged ==
    /\ DOMAIN states' = DOMAIN states
    /\ Definitions' = Definitions
    /\ Ownership' = Ownership
    /\ ExecutesRegistryRoot' = ExecutesRegistryRoot

(* C19: addState with an id already registered or with an absent parentId, and
   removeState / modifyState with an absent id, each fail with
   BehaviorTreeError and leave the registry, every definition, every child-id
   list and every ownership list as they were. *)
C19_StructuralRejection ==
    [][/\ \A d \in AddDefs, p \in {"root", "a"} :
            (AddState(d, p) /\ (d.id \in DOMAIN states \/ p \notin DOMAIN states))
               => (last'.res = "BehaviorTreeError" /\ GraphUnchanged)
       /\ (last'.op \in {"remove_state", "modify_state"} /\ last'.id \notin DOMAIN states)
               => (last'.res = "BehaviorTreeError" /\ GraphUnchanged)]_vars

(* addState("a") was rejected while "a", with a child-id list of its own, is
   registered *)
C19_Witness ==
    /\ last = Call("add_state", "a", "BehaviorTreeError")
    /\ "a" \in DOMAIN states
    /\ Definitions["a"].children # <<>>

----------------------------------------------------------------------------
(* What a caller can observe of the memory manager *)

(* the ids of the rows of the durable store *)
StoredIds(rows) == {rows[k].id : k \in DOMAIN rows}

(* the ids store_memory has returned for memories of a type other than Working *)
DurableIds == {k \in DOMAIN issued : issued[k] # "WORKING"}

NoWorkingRow(rows) == \A k \in DOMAIN rows : rows[k].type # MemoryTypeValue("WORKING")

(* C14 as stated: no record of type Working exists in the durable store, and
   every memory stored with a non-Working type is in the durable store and not
   in the working cache. *)
C14_DurableUnlessWorking ==
    /\ NoWorkingRow(db)
    /\ \A k \in DurableIds : k \in StoredIds(db) /\ k \notin DOMAIN working_memory

(* C14 amended: no record of type Working exists in the durable store and no
   memory of another type in the working cache; a memory stored with a
   non-Working type is in the durable store when store returns, and a record
   leaves the durable store only by a consolidation pass that deletes it. *)
C14_DurableUntilConsolidated ==
    [][/\ NoWorkingRow(db')
       /\ StoredIds(db') \subseteq DurableIds'
       /\ \A k \in DOMAIN working_memory' :
             issued'[k] = "WORKING" /\ working_memory'[k].type = "WORKING"
       /\ (last'.op = "store_memory" /\ last'.args.type # "WORKING")
             => last'.id \in StoredIds(db')
       /\ \A k \in StoredIds(db) \ StoredIds(db') :
             last'.op = "consolidate_memories" /\ k \in Range(last'.args.removed)]_vars

(* a consolidation pass has deleted a memory that store had put into the
   durable store, and the store holds another *)
C14_Witness ==
    /\ last.op = "consolidate_memories"
    /\ Len(last.args.removed) = 1
    /\ db # <<>>
    /\ DurableIds \ StoredIds(db) # {}

(* C15: clearWorking empties the cache and changes no record of the durable
   store; nothing else takes a memory out of the cache; and retrieve(id) of an
   id that store returned for a Working memory and that clearWorking has taken
   out of the cache returns absent. *)
C15_ClearedIsAbsent ==
    [][/\ last'.op = "clear_working_memory" => (working_memory' = <<>> /\ db' = db)
       /\ \A k \in DOMAIN working_memory \ DOMAIN working_memory' :
             last'.op = "clear_working_memory"
       /\ (/\ last'.op = "retrieve_memory"
           /\ last'.id \in DOMAIN issued
           /\ issued[last'.id] = "WORKING"
           /\ last'.id \notin DOMAIN working_memory)
             => last'.res = <<>>]_vars

(* retrieve of a cleared Working id, while the durable store holds a record *)
C15_Witness ==
    /\ last.op = "retrieve_memory"
    /\ last.id \in DOMAIN issued
    /\ issued[last.id] = "WORKING"
    /\ last.res = <<>>
    /\ db # <<>>

(* the row of the durable store with this id *)
RowOf(rows, memory_id) == rows[CHOOSE k \in DOMAIN rows : rows[k].id = memory_id]

(* the row of memory_id is in both stores and has the same access count *)
SameCount(memory_id) ==
    memory_id \in StoredIds(db') =>
        RowOf(db', memory_id).access_count = RowOf(db, memory_id).access_count

(* C16: a retrieve that hits (cache first, then durable store) returns the
   memory with its access count one higher and last-accessed stamped, the
   cache entry or the re-persisted row holding that count; a retrieve that
   finds the id nowhere returns absent and changes nothing; a row starts with
   count 0 and no other step changes the count of a row, so the stored count
   of a durable id is the number of retrieves that hit it. *)
C16_RetrieveCounts ==
    [][/\ last'.op = "retrieve_memory" =>
            IF last'.id \in DOMAIN working_memory
            THEN /\ last'.res # <<>>
                 /\ last'.res[1].access_count
                       = working_memory[last'.id].access_count + 1
                 /\ last'.res[1].last_accessed = Some(now)
                 /\ working_memory'[last'.id] = last'.res[1]
                 /\ db' = db
            ELSE IF last'.id \in StoredIds(db)
            THEN /\ last'.res # <<>>
                 /\ last'.res[1].access_count = RowOf(db, last'.id).access_count + 1
                 /\ last'.res[1].last_accessed = Some(now)
                 /\ RowOf(db', last'.id) = to_row(last'.res[1])
                 /\ \A k \in StoredIds(db) \ {last'.id} : SameCount(k)
                 /\ working_memory' = working_memory
            ELSE /\ last'.res = <<>>
                 /\ db' = db
                 /\ working_memory' = working_memory
       /\ last'.op # "retrieve_memory" => \A k \in StoredIds(db) : SameCount(k)
       /\ \A k \in StoredIds(db') \ StoredIds(db) : RowOf(db', k).access_count = 0]_vars

(* the second retrieve of a durable memory: the stored count is 2 *)
C16_Witness ==
    /\ last.op = "retrieve_memory"
    /\ last.res # <<>>
    /\ last.res[1].type = "EPISODIC"
    /\ last.id \in StoredIds(db)
    /\ RowOf(db, last.id).access_count = 2

(* the ids of the memories, cached or durable, that carry the tag *)
Tagged(tag) ==
    {k \in DOMAIN working_memory : tag \in Range(working_memory[k].tags)}
      \cup {db[k].id : k \in {j \in DOMAIN db : tag \in Range(db[j].tags)}}

Descending(memories) ==
    \A i, j \in DOMAIN memories :
        i < j => memories[i].importance >= memories[j].importance

(* C17: after storing two memories that share tag "x",
   findRelevant({tags: ["x"]}) returns both of them, ordered by importance
   descending. *)
C17_BothTaggedReturned ==
    (/\ last.op = "find_relevant_memories"
     /\ last.args.context = TagX
     /\ last.args.memory_types = <<>>
     /\ last.args.limit = DefaultLimit
     /\ Cardinality(Tagged("x")) = 2)
        => /\ Tagged("x") \subseteq {last.res[k].id : k \in DOMAIN last.res}
           /\ Descending(last.res)

(* C18: the score of calculate_importance lies in [0,1] for every memory and
   context, empty tag, state and content sets, any access count and any age
   included. *)
C18_ScoreInUnitInterval ==
    last.op = "calculate_importance" =>
        (last.res[1].importance >= 0 /\ last.res[1].importance <= One)

(* a memory stamped ahead of the clock: its weighted sum exceeds 1 and its
   score is 1 *)
C18_Witness ==
    /\ last.op = "calculate_importance"
    /\ weighted_score(last.res[1], last.args.context, now) > One
    /\ last.res[1].importance = One

(* C20: a failure of the durable store during store, retrieve or findRelevant
   is not raised to the caller: store returns the new id all the same (and
   writes nothing when its write fails), retrieve returns absent when its
   read fails and the memory when only its write-back fails, and findRelevant
   returns no memory from the query that fails. *)
C20_StorageFailureAbsorbed ==
    [][/\ last'.op = "store_memory" =>
            /\ last'.id = Len(issued) + 1
            /\ issued' = Append(issued, last'.args.type)
            /\ "store" \in last'.args.failing => db' = db
       /\ (/\ last'.op = "retrieve_memory"
           /\ last'.id \notin DOMAIN working_memory
           /\ "retrieve" \in last'.args.failing)
             => (last'.res = <<>> /\ db' = db /\ working_memory' = working_memory)
       /\ (/\ last'.op = "retrieve_memory"
           /\ last'.id \in StoredIds(db) \ DOMAIN working_memory
           /\ last'.args.failing = {"store"})
             => (last'.res # <<>> /\ db' = db)
       /\ last'.op = "find_relevant_memories" =>
            \A k \in DOMAIN last'.res : last'.res[k].type \notin last'.args.failing]_vars

(* the read of a record that is in the durable store failed: absent *)
C20_Witness ==
    /\ last.op = "retrieve_memory"
    /\ "retrieve" \in last.args.failing
    /\ last.id \in StoredIds(db)
    /\ last.res = <<>>

(* the records a step takes out of the durable store *)
Deleted == StoredIds(db) \ StoredIds(db')

(* C13: a consolidation pass deletes at most 100 records, and deletes no
   record whose access count is 2 or more, or whose importance is 0.3 or more,
   or which is less than 30 days old, or whose type is neither Episodic nor
   Semantic. *)
C13_ConsolidationSpares ==
    [][last'.op = "consolidate_memories" =>
          /\ Cardinality(Deleted) <= ConsolidateLimit
          /\ \A k \in Deleted :
                /\ RowOf(db, k).access_count < 2
                /\ RowOf(db, k).importance < MinImportance
                /\ now - RowOf(db, k).timestamp >= ThirtyDays
                /\ RowOf(db, k).type \in {"episodic", "semantic"}]_vars

(* a pass over a store with more than 100 low-value records: it has deleted
   100 of them and left one that a retrieve had counted up to 2 accesses *)
C13_Witness ==
    /\ last.op = "consolidate_memories"
    /\ Len(last.args.removed) = ConsolidateLimit
    /\ FirstOld + 1 \in StoredIds(db)
    /\ RowOf(db, FirstOld + 1).access_count = 2
    /\ RowOf(db, FirstOld + 1).importance < MinImportance

(* C12: while execute_tree is in progress, suspended at the await of an action
   result included, no add_state / remove_state / modify_state changes the
   registry or the child-ownership list of any node. *)
C12_MutationsWaitForTraversal ==
    [][(running # Idle /\ last'.op \in Mutating) =>
          (DOMAIN states' = DOMAIN states /\ Ownership' = Ownership)]_vars

----------------------------------------------------------------------------
(* The graph of the child-id lists *)

(* the ids in the child-id list of the registered node i *)
ChildrenOf(i) == Range(ChildIds(heap, lists, states[i]))

(* the child ids of every registered node, as a set *)
ChildSets == [i \in DOMAIN states |-> ChildrenOf(i)]

(* the registered ids that are reached from those of S along the child ids
   that kids gives *)
RECURSIVE DescendantsIn(_, _)
DescendantsIn(kids, S) ==
    LET T == S \cup (UNION {kids[i] : i \in S} \cap DOMAIN kids)
    IN IF T = S THEN S ELSE DescendantsIn(kids, T)

FromRootIn(kids) == DescendantsIn(kids, {"root"} \cap DOMAIN kids)

(* some child id met on the way from root has no registry entry *)
DanglingIn(kids) == \E i \in FromRootIn(kids) : kids[i] \ DOMAIN kids # {}

(* some node met on the way from root is its own descendant *)
CyclicIn(kids) ==
    \E i \in FromRootIn(kids) : i \in DescendantsIn(kids, kids[i] \cap DOMAIN kids)

FromRoot == FromRootIn(ChildSets)
Dangling == DanglingIn(ChildSets)
Cyclic == CyclicIn(ChildSets)

(* C21: validateTree() returns false exactly when, following child-id lists
   from "root", some node is met again within its own ancestor path or some
   child id has no registry entry, and true otherwise; the call changes no
   registry entry, definition or ownership list. *)
C21_ValidateTreeExact ==
    [][last'.op = "validate_tree" =>
          /\ last'.res = (IF Cyclic \/ Dangling THEN "False" ELSE "True")
          /\ GraphUnchanged]_vars

(* validateTree() has returned true on a tree in which "a" is a child of both
   root and "b" *)
C21_Witness ==
    /\ last = Call("validate_tree", "", "True")
    /\ {"a", "b"} \subseteq DOMAIN states
    /\ "a" \in ChildrenOf("root") /\ "a" \in ChildrenOf("b")

(* the ownership list of some registered node does not mirror its child-id
   list *)
OwnershipDiverges ==
    \E i \in DOMAIN states : KidIds(states[i]) # ChildIds(heap, lists, states[i])

(* C22: whenever the ownership list of some registered node does not mirror
   its definition's child-id list, validateTree() returns false. *)
C22_ValidationSurfacesDivergence ==
    (last.op = "validate_tree" /\ OwnershipDiverges) => last.res = "False"

(* C23: after a successful removeState(id), id is no registry key and occurs
   in no node's child-id list and in no node's ownership list, also when it
   occurred several times in one child-id list or in the lists of several
   parents. *)
C23_RemovedEverywhere ==
    (last.op = "remove_state" /\ last.res = "True") =>
        /\ last.id \notin DOMAIN states
        /\ \A i \in DOMAIN states :
              /\ last.id \notin ChildrenOf(i)
              /\ last.id \notin Range(KidIds(states[i]))

(* C24: after any sequence of successful addState / removeState calls, every
   registry entry is reachable from "root" through child-id lists. *)
C24_NoOrphan == DOMAIN states \subseteq FromRoot

(* C25: every registry key k maps to a state whose definition.id is k; no
   operation changes or duplicates the id of a registered state. *)
C25_KeysAreIds == \A k \in DOMAIN states : heap[states[k]].def.id = k

(* the objects for which the last execute_tree called execute() *)
Executed == {last.log[n].obj : n \in DOMAIN last.log}

(* C26: executeTree executes the node that the registry holds under "root";
   when the conditions of that node hold and no node fails, every node
   attached under it is executed, whatever calls came before. *)
C26_RunsRegistryRoot ==
    last.op = "execute_tree" =>
        /\ states["root"] \in Executed
        /\ (/\ can_execute(heap[states["root"]].def, last.ctx)
            /\ \A n \in DOMAIN last.log : last.log[n].ret = "success")
               => Range(heap[states["root"]].kids) \subseteq Executed

(* C27: whenever an addState, removeState or modifyState call has returned,
   with success or with failure, the persisted snapshot, once there is one,
   is the serialization of the graph in memory. *)
C27_FileIsGraph ==
    (last.op \in Mutating /\ last.res \in {"True", "False"} /\ file # NoFile)
        => file = save_states(states, heap, lists)

(* the child-id list of every registered node *)
ChildIdLists == [i \in DOMAIN states |-> ChildIds(heap, lists, states[i])]

(* C28: a manager constructed over the snapshot that the previous manager
   wrote of its graph has the same ids and, for every node, root included,
   the same ordered child-id list. *)
C28_RestartKeepsGraph ==
    [][(last'.op = "restart" /\ file = save_states(states, heap, lists))
        => (DOMAIN states' = DOMAIN states /\ ChildIdLists' = ChildIdLists)]_vars

(* the child ids of every registered node once the updates u are applied to
   the definition of node i *)
ChildSetsWith(i, u) ==
    [j \in DOMAIN states |->
        IF j = i /\ "children" \in DOMAIN u THEN Range(u.children) ELSE ChildrenOf(j)]

(* C29: a modifyState call on an existing id, outside the cooldown window,
   whose updates leave the tree valid returns success; afterwards every
   updated field of the node's definition holds the new value and the
   definitions of all other nodes are unchanged. *)
C29_ValidModifySucceeds ==
    [][\A i \in Ids, u \in Updates :
          (/\ ModifyState(i, u)
           /\ i \in DOMAIN states
           /\ ~cooldown_active
           /\ ~CyclicIn(ChildSetsWith(i, u))
           /\ ~DanglingIn(ChildSetsWith(i, u)))
          => /\ last'.res = "True"
             /\ DOMAIN states' = DOMAIN states
             /\ \A f \in DOMAIN u : Definitions'[i][f] = u[f]
             /\ \A j \in DOMAIN states \ {i} : Definitions'[j] = Definitions[j]]_vars

(* modifyState has given root, which had the children "a" and "b", the
   child-id list <<"a">> *)
C29_Witness ==
    /\ last = Call("modify_state", "root", "True")
    /\ DOMAIN states = {"root", "a", "b"}
    /\ Definitions["root"].children = <<"a">>
    /\ Range(Ownership["root"]) = {"a", "b"}

----------------------------------------------------------------------------
(* the execute() recorded in r came to the check `late`: an entered Action
   with at least late.at actions, or an entered Composite with at least
   late.at children whose first late.at - 1 children returned Success *)
CameTo(r, late) ==
    /\ r.obj = late.obj
    /\ r.entered
    /\ IF heap[r.obj].cls = "ActionState"
       THEN Len(heap[r.obj].def.actions) >= late.at
       ELSE /\ heap[r.obj].cls \in Composites
            /\ Len(heap[r.obj].kids) >= late.at
            /\ Len(r.ran) >= late.at - 1
            /\ \A j \in 1..(late.at - 1) : r.ran[j].ret = "success"

(* C31: a Composite checks its timeout before dispatching each child and, once
   the check finds the time elapsed, returns Failure without executing any
   further child; an Action returns Failure if its timeout has elapsed when
   one of its actions completes and does not run its remaining actions.  In
   both cases nothing else of the tree runs and executeTree returns Failure. *)
C31_TimeoutYieldsFailure ==
    [][\A late \in Checks \ {NoTimeout} :
          (last'.op = "execute_tree" /\ ExecuteTree(last'.ctx, late)) =>
             \A n \in DOMAIN last'.log :
                LET r == last'.log[n]
                IN (CameTo(r, late) /\ \A m \in 1..(n - 1) : ~CameTo(last'.log[m], late)) =>
                      /\ r.ret = "failure"
                      /\ heap'[r.obj].status = "failure"
                      /\ IF heap[r.obj].cls = "ActionState"
                         THEN r.ran = SubSeq(heap[r.obj].def.actions, 1, late.at)
                         ELSE Len(r.ran) = late.at - 1
                      /\ last'.res = "failure"
                      /\ \A m \in (n + 1)..Len(last'.log) :
                            LET up == last'.log[m]
                            IN /\ heap[up.obj].cls \in Composites
                               /\ up.ret = "failure"
                               /\ up.ran # <<>>
                               /\ up.ran[Len(up.ran)].obj = last'.log[m - 1].obj
      ]_vars

(* a Composite with two children times out before dispatching the second:
   the first has run, the second has not, and the call returned Failure *)
C31_Witness ==
    /\ last.op = "execute_tree"
    /\ last.res = "failure"
    /\ \E n \in DOMAIN last.log :
          /\ last.log[n].timed_out
          /\ heap[last.log[n].obj].cls \in Composites
          /\ Len(heap[last.log[n].obj].kids) = 2
          /\ Len(last.log[n].ran) = 1
          /\ last.log[n].ran[1].ret = "success"

----------------------------------------------------------------------------
(* C32: after execute(context) returns on any node, the node's status field
   equals the status that the call returned, also when the call returned
   Failure because the node's own conditions were false. *)
C32_StatusIsResult ==
    last.op = "execute_tree" =>
        \A n \in DOMAIN last.log :
            (\A m \in (n + 1)..Len(last.log) : last.log[m].obj # last.log[n].obj) =>
                heap[last.log[n].obj].status = last.log[n].ret

----------------------------------------------------------------------------
(* the objects that an execution starting at root_state can come to *)
UnderRoot == Closure(heap, {root_state})

(* an object that is among its own descendants in the ownership lists *)
OwnsItself(o) == o \in Closure(heap, Range(heap[o].kids))

(* C33: every executeTree call terminates and returns a status in {Success,
   Failure, Running}, after any sequence of addState / removeState /
   modifyState / restoreBackup calls, also when the child-id lists hold a
   cycle: the ownership lists under the executed root never hold a cycle, so
   the recursion of execute() is well-founded, and the call ends with the
   root's own execute() returning the result. *)
C33_ExecuteTreeTerminates ==
    /\ \A o \in UnderRoot : ~OwnsItself(o)
    /\ last.op = "execute_tree" =>
          /\ last.res \in {"success", "failure", "running"}
          /\ last.log # <<>>
          /\ last.log[Len(last.log)].obj = root_state
          /\ last.log[Len(last.log)].ret = last.res

(* the tree is run while the child-id lists hold a cycle and a restored
   registry object owns itself *)
C33_Witness ==
    /\ last.op = "execute_tree"
    /\ Cyclic
    /\ \E i \in DOMAIN states : OwnsItself(states[i])

----------------------------------------------------------------------------
(* a row that a consolidation pass at time t is to select *)
Eligible(r, t) ==
    /\ r.type \in {"episodic", "semantic"}
    /\ r.timestamp < t - ThirtyDays
    /\ r.importance < MinImportance
    /\ r.access_count < 2

(* C34: a consolidation pass selects all eligible records: if the durable
   store holds E records that are Episodic or Semantic, older than 30 days,
   with importance below 0.3 and access count below 2, the pass deletes
   exactly min(E, 100) of them, whatever other records the store holds. *)
C34_ConsolidationSelectsAll ==
    [][last'.op = "consolidate_memories" =>
          LET E == Cardinality({k \in DOMAIN db : Eligible(db[k], now)})
              kept == StoredIds(db')
          IN /\ Len(db) - Len(db') = Min2(E, ConsolidateLimit)
             /\ \A k \in DOMAIN db : db[k].id \notin kept => Eligible(db[k], now)
      ]_vars

----------------------------------------------------------------------------
(* C35: whenever a store call leaves the durable record count above the
   configured maximum, store still returns the new memory's id, and a
   consolidation pass has been scheduled as a background task (which then
   runs under fair scheduling). *)
C35_StoreReturnsAndSchedules ==
    (last.op = "store_memory" /\ Len(db) > MaxMemories) =>
        /\ last.id = Len(issued)
        /\ tasks > 0

----------------------------------------------------------------------------
(* C36: consolidation interleaved with retrieve never corrupts the store: a
   retrieve of an id that is not in the store (a consolidation pass has
   deleted it) returns absent, and no retrieve, also not one that read the
   record before the pass deleted it and writes it back after, adds a record
   to the durable store. *)
C36_RetrieveNeverRecreates ==
    [][/\ last'.op = "retrieve_memory" => StoredIds(db') \subseteq StoredIds(db)
       /\ (/\ last'.op \in {"retrieve_memory", "retrieve_memory_read"}
           /\ reading = <<>>
           /\ last'.id \notin StoredIds(db)
           /\ last'.id \notin DOMAIN working_memory)
             => (last'.res = <<>> /\ reading' = <<>>)
      ]_vars

----------------------------------------------------------------------------
(* C37: every memory returned by findRelevant, whether taken from the working
   cache or from the durable store, has relevance to the given context above
   0.3 and an importance that is at least that relevance; the result is
   sorted by importance descending and has at most `limit` elements. *)
C37_RelevantAndBoosted ==
    last.op = "find_relevant_memories" =>
        /\ \A k \in DOMAIN last.res :
              LET relevance == calculate_relevance(last.res[k], last.args.context)
              IN /\ relevance > MinImportance
                 /\ last.res[k].importance >= relevance
        /\ Descending(last.res)
        /\ Len(last.res) <= last.args.limit

----------------------------------------------------------------------------
(* the types a findRelevant call searches *)
Searched(memory_types) ==
    IF memory_types = <<>> THEN Range(DefaultTypes) ELSE Range(memory_types)

(* the ids of the memories of those types, cached or stored, whose relevance
   to the context is above 0.3 *)
RelevantIds(memory_types, context) ==
    {i \in DOMAIN working_memory :
        /\ "WORKING" \in Searched(memory_types)
        /\ calculate_relevance(working_memory[i], context) > MinImportance}
      \cup
    {db[k].id : k \in {j \in DOMAIN db :
        /\ MemoryTypeOfValue(db[j].type) \in Searched(memory_types) \ {"WORKING"}
        /\ calculate_relevance(from_row(db[j]), context) > MinImportance}}

(* C38: findRelevant is complete up to the limit: whenever at most `limit`
   memories of the requested types have relevance above 0.3 for the context,
   every one of them is in the result, whatever its stored importance. *)
C38_CompleteUpToLimit ==
    last.op = "find_relevant_memories" =>
        LET relevant == RelevantIds(last.args.memory_types, last.args.context)
        IN Cardinality(relevant) <= last.args.limit =>
              relevant \subseteq {last.res[k].id : k \in DOMAIN last.res}

----------------------------------------------------------------------------
(* the stored record passes the filters of a find: type, least importance, and
   at least one of the tags asked for *)
Passes(r, args) ==
    /\ args.memory_type # <<>> => r.type = MemoryTypeValue(args.memory_type[1])
    /\ r.importance >= args.min_importance
    /\ (args.tags # <<>> /\ args.tags[1] # <<>>) =>
           Range(args.tags[1]) \cap Range(r.tags) # {}

(* C39: MemoryStorage.find(type, minImportance, limit, tags) returns records
   sorted by importance descending then timestamp descending, all of the
   requested type with importance >= minImportance and sharing at least one
   requested tag, and it returns min(limit, M) of them, M being the number of
   stored records that pass those filters. *)
C39_FindReturnsFiltered ==
    last.op = "find_memories" =>
        LET M == Cardinality({k \in DOMAIN db : Passes(db[k], last.args)})
        IN /\ \A k \in DOMAIN last.res :
                 /\ last.res[k].id \in StoredIds(db)
                 /\ Passes(to_row(last.res[k]), last.args)
           /\ \A i, j \in DOMAIN last.res :
                 i < j => ~row_before(last.res[j], last.res[i])
           /\ Len(last.res) = Min2(last.args.limit, M)

----------------------------------------------------------------------------
(* the number of durable records of a type *)
StoredOfType(t) == Cardinality({k \in DOMAIN db : db[k].type = MemoryTypeValue(t)})

(* C40: stats() reports the durable record count, the working-cache size, and
   for each durable type the exact number of durable records of that type, so
   that the counts of the durable types sum to the reported durable total;
   the Working count equals the cache size. *)
C40_StatsAreExact ==
    last.op = "get_memory_stats" =>
        LET stats == last.res[1]
            by == stats.memory_types
        IN /\ stats.total_memories = Len(db)
           /\ stats.working_memory_count = Cardinality(DOMAIN working_memory)
           /\ \A t \in MemoryType \ {"WORKING"} : by[MemoryTypeValue(t)] = StoredOfType(t)
           /\ by["episodic"] + by["semantic"] + by["procedural"] = stats.total_memories
           /\ by["working"] = stats.working_memory_count

====
